---- MODULE Spec2Model ----
(***************************************************************************)
(* A model of pyhanko.pdf_utils.writer: the object store of                *)
(* BasePdfFileWriter (identity allocation, placeholders, object streams),  *)
(* the cross-reference chunking helper and the operations built on them.   *)
(***************************************************************************)
EXTENDS Integers, Sequences, FiniteSets, TLC

\* ------------------------------------------------------------------ bounds

\* highest object id the model lets the writer allocate
MaxId == 5
\* number of ObjectStream instances that may be created
MaxStreams == 2
\* highest id of the position maps the chunking helper is run on
MaxChunkId == 10

\* ------------------------------------------------------------------ values

\* Optional arguments: None is the empty sequence, a given value x is <<x>>.
None == << >>
Some(x) == << x >>

Range(s) == { s[i] : i \in DOMAIN s }

\* generic.NullObject()
NullObject == [kind |-> "null"]

\* generic.NameObject(v), generic.NumberObject(v), a string object
NameObject(v) == [kind |-> "name", v |-> v]
NumberObject(v) == [kind |-> "number", v |-> v]
StringObject(v) == [kind |-> "string", v |-> v]

\* generic.IndirectObject(idnum, generation, pdf)
IndirectObject(idnum, generation, pdf) ==
    [kind |-> "ref", idnum |-> idnum, generation |-> generation, pdf |-> pdf]

\* a reference of this writer to id i, generation 0
OwnRef(i) == IndirectObject(i, 0, "self")

\* A Python dict keeps insertion order: a sequence of <<key, value>> pairs.
DictHas(d, k) == \E i \in DOMAIN d : d[i][1] = k
DictGet(d, k) == d[CHOOSE i \in DOMAIN d : d[i][1] = k][2]
DictKeys(d) == { d[i][1] : i \in DOMAIN d }

\* d[k] = v
DictSet(d, k, v) ==
    IF DictHas(d, k)
    THEN [i \in DOMAIN d |-> IF d[i][1] = k THEN <<k, v>> ELSE d[i]]
    ELSE Append(d, <<k, v>>)

\* generic.DictionaryObject(d)
DictionaryObject(d) == [kind |-> "dict", d |-> d]

\* generic.ArrayObject(a)
ArrayObject(a) == [kind |-> "array", a |-> a]

\* generic.StreamObject(d, data)
StreamObject(d, data) == [kind |-> "stream", d |-> d, data |-> data]

\* the kinds of value that isinstance(obj, OBJSTREAM_FORBIDDEN) accepts
OBJSTREAM_FORBIDDEN == {"ref", "stream"}

\* ------------------------------------------------------------------ state

VARIABLES
    objects,                \* self.objects: <<generation, idnum>> -> value
    object_streams,         \* self.object_streams: list of ObjectStream handles
    objs_in_streams,        \* self.objs_in_streams: idnum -> value
    lastobj_id,             \* self._lastobj_id
    allocated_placeholders, \* self._allocated_placeholders
    stream_xrefs,           \* self.stream_xrefs
    heap,                   \* every ObjectStream instance, by handle
    returned,               \* history: ids handed out by allocation, in order
    output_version,         \* self.output_version
    security_handler,       \* self.security_handler: None or the handler
    encrypt,                \* self._encrypt: None or the reference of the
                            \* handler's encryption dictionary
    chunk_arg,              \* the chunking helper run alone: its argument
    chunk_res,              \* the chunking helper run alone: what it yielded
    glyphs,                 \* GlyphAccumulator._glyphs: ch -> (glyph id, width)
    extracted               \* GlyphAccumulator._extracted

store == << objects, object_streams, objs_in_streams, lastobj_id,
            allocated_placeholders, stream_xrefs, heap >>
vars == << objects, object_streams, objs_in_streams, lastobj_id,
           allocated_placeholders, stream_xrefs, heap, returned,
           security_handler, encrypt, output_version, chunk_arg, chunk_res, glyphs, extracted >>

\* The writer and the ObjectStream instances as one record, so that the
\* methods can be composed (write, insert_page and import_object call
\* add_object and allocate_placeholder).
Writer ==
    [ objects |-> objects, object_streams |-> object_streams,
      objs_in_streams |-> objs_in_streams, lastobj_id |-> lastobj_id,
      allocated_placeholders |-> allocated_placeholders,
      stream_xrefs |-> stream_xrefs, heap |-> heap, returned |-> returned,
      security_handler |-> security_handler, encrypt |-> encrypt,
      output_version |-> output_version ]

Install(st) ==
    /\ objects' = st.objects
    /\ object_streams' = st.object_streams
    /\ objs_in_streams' = st.objs_in_streams
    /\ lastobj_id' = st.lastobj_id
    /\ allocated_placeholders' = st.allocated_placeholders
    /\ stream_xrefs' = st.stream_xrefs
    /\ heap' = st.heap
    /\ returned' = st.returned
    /\ security_handler' = st.security_handler
    /\ encrypt' = st.encrypt
    /\ output_version' = st.output_version

\* ------------------------------------------------------------------ ObjectStream

\* ObjectStream.__init__
ObjectStreamInit(compress) == [obj_refs |-> << >>, compress |-> compress]

\* ObjectStream.add_object without the isinstance test: a plausible slip
ObjectStream_add_object_unchecked(stm, idnum, obj) ==
    [status |-> "ok", stm |-> [stm EXCEPT !.obj_refs = DictSet(@, idnum, obj)]]

\* ObjectStream.add_object
ObjectStream_add_object(stm, idnum, obj) ==
    IF obj.kind \in OBJSTREAM_FORBIDDEN
    THEN [status |-> "TypeError", stm |-> stm]
    ELSE [status |-> "ok", stm |-> [stm EXCEPT !.obj_refs = DictSet(@, idnum, obj)]]

\* ------------------------------------------------------------------ object store

\* self._resolves_objs_from = (self,)
resolves_objs_from == {"self"}

\* get_object with the owner test dropped
get_object_no_owner_test(st, ido) ==
    IF <<ido.generation, ido.idnum>> \in DOMAIN st.objects
    THEN [status |-> "ok", res |-> st.objects[<<ido.generation, ido.idnum>>]]
    ELSE IF ido.generation = 0 /\ ido.idnum \in st.allocated_placeholders
    THEN [status |-> "ok", res |-> NullObject]
    ELSE IF ido.generation = 0 /\ ido.idnum \in DOMAIN st.objs_in_streams
    THEN [status |-> "ok", res |-> st.objs_in_streams[ido.idnum]]
    ELSE [status |-> "KeyError"]

\* get_object that looks a pending placeholder up like any other id
get_object_no_placeholder(st, ido) ==
    IF ido.pdf \notin resolves_objs_from
    THEN [status |-> "ValueError"]
    ELSE IF <<ido.generation, ido.idnum>> \in DOMAIN st.objects
    THEN [status |-> "ok", res |-> st.objects[<<ido.generation, ido.idnum>>]]
    ELSE IF ido.generation = 0 /\ ido.idnum \in DOMAIN st.objs_in_streams
    THEN [status |-> "ok", res |-> st.objs_in_streams[ido.idnum]]
    ELSE [status |-> "KeyError"]

\* BasePdfFileWriter.get_object
get_object(st, ido) ==
    IF ido.pdf \notin resolves_objs_from
    THEN [status |-> "ValueError"]
    ELSE IF <<ido.generation, ido.idnum>> \in DOMAIN st.objects
    THEN [status |-> "ok", res |-> st.objects[<<ido.generation, ido.idnum>>]]
    ELSE IF ido.generation = 0 /\ ido.idnum \in st.allocated_placeholders
    THEN [status |-> "ok", res |-> NullObject]
    ELSE IF ido.generation = 0 /\ ido.idnum \in DOMAIN st.objs_in_streams
    THEN [status |-> "ok", res |-> st.objs_in_streams[ido.idnum]]
    ELSE [status |-> "KeyError"]

\* allocate_placeholder that forgets to advance the cursor
allocate_placeholder_no_advance(st) ==
    LET idnum == st.lastobj_id + 1 IN
    [ st |-> [st EXCEPT !.allocated_placeholders = @ \cup {idnum},
                        !.returned = Append(@, idnum)],
      status |-> "ok",
      res |-> IndirectObject(idnum, 0, "self") ]

\* BasePdfFileWriter.allocate_placeholder
allocate_placeholder(st) ==
    LET idnum == st.lastobj_id + 1 IN
    [ st |-> [st EXCEPT !.allocated_placeholders = @ \cup {idnum},
                        !.lastobj_id = @ + 1,
                        !.returned = Append(@, idnum)],
      status |-> "ok",
      res |-> IndirectObject(idnum, 0, "self") ]

\* add_object, first part, accepting any idnum the caller names
add_object_idnum_unchecked(st, idnum) ==
    IF idnum # None
    THEN [status |-> "ok", preallocated |-> TRUE, idnum |-> idnum[1]]
    ELSE [status |-> "ok", preallocated |-> FALSE, idnum |-> st.lastobj_id + 1]

\* add_object, first part: the id the object is stored under
add_object_idnum(st, idnum) ==
    IF idnum # None
    THEN IF idnum[1] \notin st.allocated_placeholders
         THEN [status |-> "PdfWriteError"]
         ELSE [status |-> "ok", preallocated |-> TRUE, idnum |-> idnum[1]]
    ELSE [status |-> "ok", preallocated |-> FALSE, idnum |-> st.lastobj_id + 1]

\* add_object, second part, storing a container member in self.objects too
add_object_store_both(st, obj, obj_stream, idnum) ==
    IF obj_stream = None
    THEN [status |-> "ok",
          st |-> [st EXCEPT !.objects = (<<0, idnum>> :> obj) @@ @]]
    ELSE IF obj_stream[1] \in Range(st.object_streams)
    THEN LET r == ObjectStream_add_object(st.heap[obj_stream[1]], idnum, obj) IN
         IF r.status # "ok"
         THEN [status |-> r.status, st |-> st]
         ELSE [status |-> "ok",
               st |-> [st EXCEPT !.heap[obj_stream[1]] = r.stm,
                                 !.objects = (<<0, idnum>> :> obj) @@ @,
                                 !.objs_in_streams = (idnum :> obj) @@ @]]
    ELSE [status |-> "PdfWriteError", st |-> st]

\* add_object, second part, without the membership test on the stream
add_object_store_any_stream(st, obj, obj_stream, idnum) ==
    IF obj_stream = None
    THEN [status |-> "ok",
          st |-> [st EXCEPT !.objects = (<<0, idnum>> :> obj) @@ @]]
    ELSE LET r == ObjectStream_add_object(st.heap[obj_stream[1]], idnum, obj) IN
         IF r.status # "ok"
         THEN [status |-> r.status, st |-> st]
         ELSE [status |-> "ok",
               st |-> [st EXCEPT !.heap[obj_stream[1]] = r.stm,
                                 !.objs_in_streams = (idnum :> obj) @@ @]]

\* add_object, second part: where the object is stored
add_object_store(st, obj, obj_stream, idnum) ==
    IF obj_stream = None
    THEN [status |-> "ok",
          st |-> [st EXCEPT !.objects = (<<0, idnum>> :> obj) @@ @]]
    ELSE IF obj_stream[1] \in Range(st.object_streams)
    THEN LET r == ObjectStream_add_object(st.heap[obj_stream[1]], idnum, obj) IN
         IF r.status # "ok"
         THEN [status |-> r.status, st |-> st]
         ELSE [status |-> "ok",
               st |-> [st EXCEPT !.heap[obj_stream[1]] = r.stm,
                                 !.objs_in_streams = (idnum :> obj) @@ @]]
    ELSE [status |-> "PdfWriteError", st |-> st]

\* add_object, last part, leaving a populated placeholder pending
add_object_finish_keep_pending(st, preallocated, idnum) ==
    IF preallocated
    THEN st
    ELSE [st EXCEPT !.lastobj_id = @ + 1, !.returned = Append(@, idnum)]

\* add_object, last part: the placeholder is consumed or the cursor advances
add_object_finish(st, preallocated, idnum) ==
    IF preallocated
    THEN [st EXCEPT !.allocated_placeholders = @ \ {idnum}]
    ELSE [st EXCEPT !.lastobj_id = @ + 1, !.returned = Append(@, idnum)]

\* BasePdfFileWriter.add_object
add_object(st, obj, obj_stream, idnum) ==
    LET a == add_object_idnum(st, idnum) IN
    IF a.status # "ok"
    THEN [st |-> st, status |-> a.status]
    ELSE LET s == add_object_store(st, obj, obj_stream, a.idnum) IN
         IF s.status # "ok"
         THEN [st |-> st, status |-> s.status]
         ELSE [ st |-> add_object_finish(s.st, a.preallocated, a.idnum),
                status |-> "ok",
                res |-> IndirectObject(a.idnum, 0, "self") ]

\* prepare_object_stream without the stream_xrefs test
prepare_object_stream_unchecked(st, compress) ==
    LET h == Len(st.heap) + 1 IN
    [ st |-> [st EXCEPT !.heap = Append(@, ObjectStreamInit(compress)),
                        !.object_streams = Append(@, h)],
      status |-> "ok",
      res |-> h ]

\* BasePdfFileWriter.prepare_object_stream
prepare_object_stream(st, compress) ==
    IF ~ st.stream_xrefs
    THEN [st |-> st, status |-> "PdfWriteError"]
    ELSE LET h == Len(st.heap) + 1 IN
         [ st |-> [st EXCEPT !.heap = Append(@, ObjectStreamInit(compress)),
                             !.object_streams = Append(@, h)],
           status |-> "ok",
           res |-> h ]

\* ------------------------------------------------------------------ cross-references

\* sorted(position_dict.keys(), key=lambda t: t[1]): the keys <<generation,
\* idnum>> in idnum order (the idnums of a position map are pairwise
\* different: every key the writer enters has generation 0)
RECURSIVE SortedByIdnum(_)
SortedByIdnum(keys) ==
    IF keys = {}
    THEN << >>
    ELSE LET k == CHOOSE k \in keys : \A o \in keys : k[2] <= o[2]
         IN << k >> \o SortedByIdnum(keys \ {k})

\* the loop body of _contiguous_xref_chunks, not moving first_idnum on a jump
ChunkStep_stale_first_idnum(position_dict, acc, ix) ==
    LET generation == ix[1]
        idnum == ix[2]
        jumped == acc.current_chunk # << >> /\ idnum # acc.previous_idnum[1] + 1
        a1 == IF jumped
              THEN [acc EXCEPT !.out = Append(@, <<acc.first_idnum, acc.current_chunk>>),
                               !.current_chunk = << >>]
              ELSE acc
    IN [a1 EXCEPT !.current_chunk = Append(@, <<position_dict[ix], generation>>),
                  !.previous_idnum = Some(idnum)]

\* the loop body of _contiguous_xref_chunks: one key of the iteration
ChunkStep(position_dict, acc, ix) ==
    LET generation == ix[1]
        idnum == ix[2]
        jumped == acc.current_chunk # << >> /\ idnum # acc.previous_idnum[1] + 1
        a1 == IF jumped
              THEN [acc EXCEPT !.out = Append(@, <<acc.first_idnum, acc.current_chunk>>),
                               !.current_chunk = << >>,
                               !.first_idnum = idnum]
              ELSE acc
    IN [a1 EXCEPT !.current_chunk = Append(@, <<position_dict[ix], generation>>),
                  !.previous_idnum = Some(idnum)]

RECURSIVE ChunkLoop(_, _, _)
ChunkLoop(position_dict, acc, key_iter) ==
    IF key_iter = << >>
    THEN acc
    ELSE ChunkLoop(position_dict, ChunkStep(position_dict, acc, Head(key_iter)),
                   Tail(key_iter))

\* _contiguous_xref_chunks(position_dict), for a non-empty position_dict: the
\* sequence of the <<first_idnum, chunk>> pairs it yields, a chunk being a
\* sequence of <<position, generation>>
contiguous_xref_chunks(position_dict) ==
    LET key_iter == SortedByIdnum(DOMAIN position_dict)
        acc == ChunkLoop(position_dict,
                         [ previous_idnum |-> None, current_chunk |-> << >>,
                           first_idnum |-> key_iter[1][2], out |-> << >> ],
                         key_iter)
    IN Append(acc.out, <<acc.first_idnum, acc.current_chunk>>)

\* ------------------------------------------------------------------ construction

\* BasePdfFileWriter.__init__, up to the first add_object
EmptyWriter(sx) ==
    [ objects |-> << >>, object_streams |-> << >>, objs_in_streams |-> << >>,
      lastobj_id |-> 0, allocated_placeholders |-> {}, stream_xrefs |-> sx,
      heap |-> << >>, returned |-> << >>,
      security_handler |-> None, encrypt |-> None,
      output_version |-> << 1, 7 >> ]

\* the values PdfFileWriter.__init__ registers
RootDict == DictionaryObject(<< <<"Type", NameObject("Catalog")>> >>)
InfoDict == DictionaryObject(<< <<"Producer", StringObject("pyhanko")>> >>)
PagesDict ==
    DictionaryObject(<< <<"Type", NameObject("Pages")>>,
                        <<"Count", NumberObject(0)>>,
                        <<"Kids", ArrayObject(<< >>)>> >>)

\* PdfFileWriter.__init__(stream_xrefs, init_page_tree=True): root, info and
\* the page tree root are added in this order; root['/Pages'] is set last.
PdfFileWriterInit(sx) ==
    LET w1 == add_object(EmptyWriter(sx), RootDict, None, None)
        w2 == add_object(w1.st, InfoDict, None, None)
        w3 == add_object(w2.st, PagesDict, None, None)
    IN [w3.st EXCEPT !.objects[<<0, w1.res.idnum>>].d = DictSet(@, "Pages", w3.res)]

Init ==
    \E sx \in BOOLEAN :
        LET st == PdfFileWriterInit(sx) IN
        /\ objects = st.objects
        /\ object_streams = st.object_streams
        /\ objs_in_streams = st.objs_in_streams
        /\ lastobj_id = st.lastobj_id
        /\ allocated_placeholders = st.allocated_placeholders
        /\ stream_xrefs = st.stream_xrefs
        /\ heap = st.heap
        /\ returned = st.returned
        /\ security_handler = st.security_handler
        /\ encrypt = st.encrypt
        /\ output_version = st.output_version
        /\ chunk_arg = << >>
        /\ chunk_res = None
        /\ glyphs = << >>
        /\ extracted = FALSE

\* ------------------------------------------------------------------ encryption

\* StandardSecurityHandler.build_from_pw(owner_pass, user_pass): the handler
\* is known here by the passwords it was built from; the user password
\* defaults to the owner password
build_from_pw(owner_pass, user_pass) ==
    [owner_pass |-> owner_pass,
     user_pass |-> IF user_pass = None THEN owner_pass ELSE user_pass[1]]

\* sh.as_pdf_object(): the handler's encryption dictionary
SecurityHandler_as_pdf_object(sh) ==
    DictionaryObject(<< <<"Filter", NameObject("Standard")>>,
                        <<"O", StringObject(sh.owner_pass)>>,
                        <<"U", StringObject(sh.user_pass)>> >>)

\* BasePdfFileWriter._assign_security_handler
assign_security_handler(st, sh) ==
    LET a == add_object([st EXCEPT !.security_handler = Some(sh)],
                        SecurityHandler_as_pdf_object(sh), None, None)
    IN [a.st EXCEPT !.encrypt = Some(a.res)]

\* PdfFileWriter.encrypt
encrypt_document(st, owner_pass, user_pass) ==
    assign_security_handler([st EXCEPT !.output_version = << 2, 0 >>],
                            build_from_pw(owner_pass, user_pass))

\* ------------------------------------------------------------------ write

\* A position in the map that write builds is a byte offset (an int) or, for
\* a member of an object stream, the tuple (container id, index in container).
Offset(n) == [offset |-> n]
InStream(obj_stream_num, ix) == [obj_stream_num |-> obj_stream_num, ix |-> ix]
\* isinstance(position, tuple)
IsTuple(position) == "ix" \in DOMAIN position

RECURSIVE Concat(_)
Concat(seqs) == IF seqs = << >> THEN << >> ELSE Head(seqs) \o Concat(Tail(seqs))

\* self._root and self._info: what add_object returned for them in __init__
root_ref == IndirectObject(1, 0, "self")
info_ref == IndirectObject(2, 0, "self")

\* StreamObject.compress(): the filter is declared and the data encoded
StreamObject_compress(stream_object) ==
    StreamObject(DictSet(stream_object.d, "Filter", NameObject("FlateDecode")),
                 << "flate", stream_object.data >>)

\* ObjectStream.as_pdf_object: the header lists <<idnum, offset>> per member
\* (a member body and a header entry are one unit long each)
as_pdf_object(obj_stream) ==
    LET refs == obj_stream.obj_refs
        stream_header == [j \in DOMAIN refs |-> <<refs[j][1], j - 1>>]
        main_body == [j \in DOMAIN refs |-> refs[j][2]]
        first_obj_offset == Len(stream_header)
        stream_object ==
            StreamObject(<< <<"Type", NameObject("ObjStm")>>,
                            <<"N", NumberObject(Len(refs))>>,
                            <<"First", NumberObject(first_obj_offset)>> >>,
                         [header |-> stream_header, body |-> main_body])
    IN IF obj_stream.compress THEN StreamObject_compress(stream_object) ELSE stream_object

\* _write_objects, first loop: every registered object stream is added as a
\* new object and its members get their (container id, index) positions
RECURSIVE write_object_streams(_, _, _)
write_object_streams(st, object_position_dict, streams) ==
    IF streams = << >>
    THEN [st |-> st, object_position_dict |-> object_position_dict]
    ELSE LET obj_stream == st.heap[Head(streams)]
             a == add_object(st, as_pdf_object(obj_stream), None, None)
             stream_ref == a.res
             refs == obj_stream.obj_refs
             entries ==
                 [ key \in { <<0, refs[j][1]>> : j \in DOMAIN refs } |->
                     InStream(stream_ref.idnum,
                              (CHOOSE j \in DOMAIN refs : refs[j][1] = key[2]) - 1) ]
         IN write_object_streams(a.st, entries @@ object_position_dict,
                                 Tail(streams))

\* sorted(self.objects.keys()): <<generation, idnum>> in tuple order
RECURSIVE SortedKeys(_)
SortedKeys(keys) ==
    IF keys = {}
    THEN << >>
    ELSE LET k == CHOOSE k \in keys : \A o \in keys :
                      k[1] < o[1] \/ (k[1] = o[1] /\ k[2] <= o[2])
         IN << k >> \o SortedKeys(keys \ {k})

RECURSIVE write_direct_objects(_, _, _, _)
\* the second loop of _write_objects handing the handler to every object,
\* that of self._encrypt included
write_direct_objects_no_exemption(st, stream, object_position_dict, keys) ==
    IF keys = << >>
    THEN [stream |-> stream, object_position_dict |-> object_position_dict]
    ELSE LET ix == Head(keys)
             generation == ix[1]
             idnum == ix[2]
             obj == st.objects[ix]
             handler ==
                 IF st.security_handler # None
                 THEN st.security_handler
                 ELSE None
             out == stream \o
                 << [t |-> "obj", idnum |-> idnum, generation |-> generation],
                    [t |-> "body", obj |-> obj, handler |-> handler,
                     container_ref |-> Some(<<idnum, generation>>)],
                    [t |-> "endobj"] >>
         IN write_direct_objects(st, out,
                                 (ix :> Offset(Len(stream))) @@ object_position_dict,
                                 Tail(keys))

\* _write_objects, second loop: the directly stored objects in key order.
\* The handler passed to write_to_stream is self.security_handler for every
\* object but the one whose id is that of self._encrypt.
write_direct_objects(st, stream, object_position_dict, keys) ==
    IF keys = << >>
    THEN [stream |-> stream, object_position_dict |-> object_position_dict]
    ELSE LET ix == Head(keys)
             generation == ix[1]
             idnum == ix[2]
             obj == st.objects[ix]
             handler ==
                 IF st.security_handler # None /\ idnum # st.encrypt[1].idnum
                 THEN st.security_handler
                 ELSE None
             out == stream \o
                 << [t |-> "obj", idnum |-> idnum, generation |-> generation],
                    [t |-> "body", obj |-> obj, handler |-> handler,
                     container_ref |-> Some(<<idnum, generation>>)],
                    [t |-> "endobj"] >>
         IN write_direct_objects(st, out,
                                 (ix :> Offset(Len(stream))) @@ object_position_dict,
                                 Tail(keys))

\* _write_objects with the two loops in the other order: the objects of the
\* store are written first, the object streams are registered afterwards
write_objects_streams_last(st, stream, object_position_dict) ==
    LET d == write_direct_objects(st, stream, object_position_dict,
                                  SortedKeys(DOMAIN st.objects))
        s == write_object_streams(st, d.object_position_dict, st.object_streams)
    IN [st |-> s.st, stream |-> d.stream,
        object_position_dict |-> s.object_position_dict]

\* BasePdfFileWriter._write_objects
write_objects(st, stream, object_position_dict) ==
    LET s == write_object_streams(st, object_position_dict, st.object_streams)
        d == write_direct_objects(s.st, stream, s.object_position_dict,
                                  SortedKeys(DOMAIN s.st.objects))
    IN [st |-> s.st, stream |-> d.stream,
        object_position_dict |-> d.object_position_dict]

\* write_subsection of _write_xref_table: "%010d" % position raises TypeError
\* when the position is a tuple
RECURSIVE write_subsection(_, _)
write_subsection(stream, chunk) ==
    IF chunk = << >>
    THEN [status |-> "ok", stream |-> stream]
    ELSE LET position == Head(chunk)[1]
             generation == Head(chunk)[2]
         IN IF IsTuple(position)
            THEN [status |-> "TypeError", stream |-> stream]
            ELSE write_subsection(
                     Append(stream, [t |-> "entry", position |-> position.offset,
                                     generation |-> generation]),
                     Tail(chunk))

\* write_header of _write_xref_table
write_header(stream, idnum, length) ==
    Append(stream, [t |-> "header", idnum |-> idnum, length |-> length])

\* the closing loop of _write_xref_table
RECURSIVE write_subsections(_, _)
write_subsections(stream, subsections) ==
    IF subsections = << >>
    THEN [status |-> "ok", stream |-> stream]
    ELSE LET first_idnum == Head(subsections)[1]
             subsection == Head(subsections)[2]
             r == write_subsection(write_header(stream, first_idnum, Len(subsection)),
                                   subsection)
         IN IF r.status # "ok" THEN r ELSE write_subsections(r.stream, Tail(subsections))

\* _write_xref_table with the null object always in a subsection of its own
write_xref_table_never_merged(stream, position_dict) ==
    LET xref_location == Len(stream)
        subsections == contiguous_xref_chunks(position_dict)
        first_idnum == subsections[1][1]
        subsection == subsections[1][2]
        null_obj_ref == [t |-> "free", position |-> 0, generation |-> 65535]
        s0 == Append(stream, [t |-> "xref"])
        s1 == write_header(Append(write_header(s0, 0, 1), null_obj_ref),
                           first_idnum, Len(subsection))
        r1 == write_subsection(s1, subsection)
        r2 == IF r1.status # "ok" THEN r1
              ELSE write_subsections(r1.stream, Tail(subsections))
    IN [status |-> r2.status, stream |-> r2.stream, xref_location |-> xref_location]

\* _write_xref_table(stream, position_dict)
write_xref_table(stream, position_dict) ==
    LET xref_location == Len(stream)
        subsections == contiguous_xref_chunks(position_dict)
        first_idnum == subsections[1][1]
        subsection == subsections[1][2]
        null_obj_ref == [t |-> "free", position |-> 0, generation |-> 65535]
        s0 == Append(stream, [t |-> "xref"])
        s1 == IF first_idnum = 1
              THEN Append(write_header(s0, 0, Len(subsection) + 1), null_obj_ref)
              ELSE write_header(Append(write_header(s0, 0, 1), null_obj_ref),
                                first_idnum, Len(subsection))
        r1 == write_subsection(s1, subsection)
        r2 == IF r1.status # "ok" THEN r1
              ELSE write_subsections(r1.stream, Tail(subsections))
    IN [status |-> r2.status, stream |-> r2.stream, xref_location |-> xref_location]

\* XRefStream.__init__ followed by compress(), as _write does
XRefStreamInit ==
    << <<"W", ArrayObject(<< NumberObject(1), NumberObject(8), NumberObject(2) >>)>>,
       <<"Type", NameObject("XRef")>>,
       <<"Filter", NameObject("FlateDecode")>> >>

\* an entry of the cross-reference stream written as type 1 whatever the position
XRefStreamEntry_all_type1(position, generation) ==
    IF IsTuple(position)
    THEN << 1, position.obj_stream_num, position.ix >>
    ELSE << 1, position.offset, generation >>

\* one entry of the cross-reference stream: <<type, field 2, field 3>>
XRefStreamEntry(position, generation) ==
    IF IsTuple(position)
    THEN << 2, position.obj_stream_num, position.ix >>
    ELSE << 1, position.offset, generation >>

\* XRefStream.write_to_stream with an /Index that starts empty
XRefStream_write_to_stream_no_free_run(d, position_dict) ==
    LET subsections == contiguous_xref_chunks(position_dict)
        index == Concat([j \in DOMAIN subsections |->
                           << subsections[j][1], Len(subsections[j][2]) >>])
        stream_content ==
            << << 0, 0, 65535 >> >> \o
            Concat([j \in DOMAIN subsections |->
                      [k \in DOMAIN subsections[j][2] |->
                          XRefStreamEntry(subsections[j][2][k][1],
                                          subsections[j][2][k][2])]])
        index_entry == ArrayObject([j \in DOMAIN index |-> NumberObject(index[j])])
    IN StreamObject(DictSet(d, "Index", index_entry), stream_content)

\* XRefStream.write_to_stream: the /Index entry and the stream content
XRefStream_write_to_stream(d, position_dict) ==
    LET subsections == contiguous_xref_chunks(position_dict)
        index == << 0, 1 >> \o
                 Concat([j \in DOMAIN subsections |->
                           << subsections[j][1], Len(subsections[j][2]) >>])
        stream_content ==
            << << 0, 0, 65535 >> >> \o
            Concat([j \in DOMAIN subsections |->
                      [k \in DOMAIN subsections[j][2] |->
                          XRefStreamEntry(subsections[j][2][k][1],
                                          subsections[j][2][k][2])]])
        index_entry == ArrayObject([j \in DOMAIN index |-> NumberObject(index[j])])
    IN StreamObject(DictSet(d, "Index", index_entry), stream_content)

\* self._document_id: the two random byte strings of PdfFileWriter.__init__
document_id ==
    ArrayObject(<< [kind |-> "bytes", v |-> "id1"], [kind |-> "bytes", v |-> "id2"] >>)

\* BasePdfFileWriter._populate_trailer
populate_trailer(st, trailer) ==
    LET t == DictSet(DictSet(trailer, "Root", root_ref), "Info", info_ref)
        u == IF st.encrypt # None THEN DictSet(t, "Encrypt", st.encrypt[1]) ELSE t
    IN DictSet(u, "ID", document_id)

\* PdfFileWriter._write_header
write_file_header(st, stream) ==
    stream \o << [t |-> "version", major |-> st.output_version[1],
                  minor |-> st.output_version[2]],
                 [t |-> "binary"] >>

\* the compact branch of _write encoding the stream from the position map
\* as _write_objects left it, without the entry of the stream itself
write_xref_stream_unregistered(w, trailer1) ==
    LET xref_location == Len(w.stream)
        xrefs_id == w.st.lastobj_id + 1
        object_positions ==
            (<<0, xrefs_id>> :> Offset(xref_location)) @@ w.object_position_dict
        trailer == DictSet(trailer1, "Size", NumberObject(xrefs_id + 1))
        xref_stream == XRefStream_write_to_stream(trailer, w.object_position_dict)
    IN [ st |-> w.st, status |-> "ok",
         object_positions |-> object_positions,
         trailer |-> xref_stream.d,
         xref_location |-> xref_location,
         stream |-> w.stream \o
             << [t |-> "obj", idnum |-> xrefs_id, generation |-> 0],
                [t |-> "body", obj |-> xref_stream, handler |-> None,
                 container_ref |-> None],
                [t |-> "endobj"],
                [t |-> "startxref", xref_location |-> xref_location],
                [t |-> "EOF"] >> ]

\* _write, the branch "if self.stream_xrefs": w is what _write_objects left
write_xref_stream(w, trailer1) ==
    LET xref_location == Len(w.stream)
        xrefs_id == w.st.lastobj_id + 1
        object_positions ==
            (<<0, xrefs_id>> :> Offset(xref_location)) @@ w.object_position_dict
        trailer == DictSet(trailer1, "Size", NumberObject(xrefs_id + 1))
        xref_stream == XRefStream_write_to_stream(trailer, object_positions)
    IN [ st |-> w.st, status |-> "ok",
         object_positions |-> object_positions,
         trailer |-> xref_stream.d,
         xref_location |-> xref_location,
         stream |-> w.stream \o
             << [t |-> "obj", idnum |-> xrefs_id, generation |-> 0],
                [t |-> "body", obj |-> xref_stream, handler |-> None,
                 container_ref |-> None],
                [t |-> "endobj"],
                [t |-> "startxref", xref_location |-> xref_location],
                [t |-> "EOF"] >> ]

\* _write, the branch of the classical xref table; x is what
\* _write_xref_table left
write_trailer(w, x, trailer1) ==
    LET trailer == DictSet(trailer1, "Size", NumberObject(w.st.lastobj_id + 1)) IN
    IF x.status # "ok"
    THEN [ st |-> w.st, status |-> x.status,
           object_positions |-> w.object_position_dict,
           stream |-> x.stream ]
    ELSE [ st |-> w.st, status |-> "ok",
           object_positions |-> w.object_position_dict,
           trailer |-> trailer,
           xref_location |-> x.xref_location,
           stream |-> x.stream \o
               << [t |-> "trailer"],
                  [t |-> "body", obj |-> DictionaryObject(trailer),
                   handler |-> None, container_ref |-> None],
                  [t |-> "startxref", xref_location |-> x.xref_location],
                  [t |-> "EOF"] >> ]

\* _write once _write_objects is done
write_xrefs(w, trailer1) ==
    IF w.st.stream_xrefs
    THEN write_xref_stream(w, trailer1)
    ELSE write_trailer(w, write_xref_table(w.stream, w.object_position_dict), trailer1)

\* BasePdfFileWriter.write(stream) on an empty stream
write(st) ==
    write_xrefs(write_objects(st, write_file_header(st, << >>), << >>),
                populate_trailer(st, IF st.stream_xrefs THEN XRefStreamInit ELSE << >>))

\* ------------------------------------------------------------------ page tree

\* An object that lives in the store is mutated in place: the new value is
\* seen wherever the object is stored (self.objects, or self.objs_in_streams
\* and the ObjectStream that holds it).
mutate(st, ref, v) ==
    IF <<ref.generation, ref.idnum>> \in DOMAIN st.objects
    THEN [st EXCEPT !.objects[<<ref.generation, ref.idnum>>] = v]
    ELSE [st EXCEPT
            !.objs_in_streams[ref.idnum] = v,
            !.heap = [h \in DOMAIN @ |->
                        [@[h] EXCEPT !.obj_refs =
                            [j \in DOMAIN @ |->
                                IF @[j][1] = ref.idnum THEN <<ref.idnum, v>> ELSE @[j]]]]]

\* list.append(x) in the place of list.insert(i, x)
ListInsert_append(l, i, x) == Append(l, x)

\* list.insert(i, x)
ListInsert(l, i, x) == SubSeq(l, 1, i) \o << x >> \o SubSeq(l, i + 1, Len(l))

\* PdfHandler.root: the document catalog
root(st) == get_object(st, root_ref).res

\* The walk of PdfHandler.find_page_container: the kids of one node from
\* kid_index on, cur_page_ix being the index of the first page below that kid.
RECURSIVE walk_page_tree(_, _, _, _, _)
walk_page_tree(st, page_ix, pages_obj_ref, kid_index, cur_page_ix) ==
    LET kids == DictGet(get_object(st, pages_obj_ref).res.d, "Kids").a IN
    IF kid_index >= Len(kids)
    THEN [status |-> "PageNotFound"]
    ELSE LET kid_ref == kids[kid_index + 1]
             kid == get_object(st, kid_ref).res
         IN IF DictGet(kid.d, "Type") = NameObject("Pages")
            THEN LET desc_count == DictGet(kid.d, "Count").v IN
                 IF cur_page_ix <= page_ix /\ page_ix < cur_page_ix + desc_count
                 THEN walk_page_tree(st, page_ix, kid_ref, 0, cur_page_ix)
                 ELSE walk_page_tree(st, page_ix, pages_obj_ref, kid_index + 1,
                                     cur_page_ix + desc_count)
            ELSE IF cur_page_ix = page_ix
                 THEN [status |-> "ok", pages_obj_ref |-> pages_obj_ref,
                       kid_ix |-> kid_index]
                 ELSE walk_page_tree(st, page_ix, pages_obj_ref, kid_index + 1,
                                     cur_page_ix + 1)

\* PdfHandler.find_page_container(page_ix): the node that holds the page at
\* page_ix and the index of the page among the kids of that node
find_page_container(st, page_ix) ==
    LET page_tree_root_ref == DictGet(root(st).d, "Pages")
        page_count == DictGet(get_object(st, page_tree_root_ref).res.d, "Count").v
    IN IF ~ (0 <= page_ix /\ page_ix < page_count)
       THEN [status |-> "PageNotFound"]
       ELSE walk_page_tree(st, page_ix, page_tree_root_ref, 0, 0)

\* the count of the container alone is increased, not that of its ancestors
increase_page_counts_container_only(st, parent_ref) ==
    LET parent == get_object(st, parent_ref).res
        count == DictGet(parent.d, "Count").v
    IN mutate(st, parent_ref,
              [parent EXCEPT !.d = DictSet(@, "Count", NumberObject(count + 1))])

\* insert_page, the loop "increase page count for all parents"
RECURSIVE increase_page_counts(_, _)
increase_page_counts(st, parent_ref) ==
    LET parent == get_object(st, parent_ref).res
        count == DictGet(parent.d, "Count").v
        st1 == mutate(st, parent_ref,
                      [parent EXCEPT !.d = DictSet(@, "Count", NumberObject(count + 1))])
    IN IF DictHas(parent.d, "Parent")
       THEN increase_page_counts(st1, DictGet(parent.d, "Parent"))
       ELSE st1

\* insert_page looking for /Kids only after the counts were increased
insert_page_late_kids_check(st, new_page, after) ==
    IF ~ DictHas(new_page.d, "Type")
    THEN [st |-> st, status |-> "KeyError"]
    ELSE IF DictGet(new_page.d, "Type") # NameObject("Page")
    THEN [st |-> st, status |-> "ValueError"]
    ELSE IF DictHas(new_page.d, "Parent")
    THEN [st |-> st, status |-> "ValueError"]
    ELSE
    LET page_tree_root_ref == DictGet(root(st).d, "Pages")
        after1 == IF after = None
                  THEN DictGet(get_object(st, page_tree_root_ref).res.d, "Count").v - 1
                  ELSE after[1]
        c == IF after1 = -1
             THEN [status |-> "ok", pages_obj_ref |-> page_tree_root_ref, kid_ix |-> -1]
             ELSE find_page_container(st, after1)
    IN IF c.status # "ok"
       THEN [st |-> st, status |-> c.status]
       ELSE
       LET pages_obj_ref == c.pages_obj_ref
           pages_obj == get_object(st, pages_obj_ref).res
           st1 == increase_page_counts(st, pages_obj_ref)
       IN IF ~ DictHas(pages_obj.d, "Kids")
          THEN [st |-> st1, status |-> "ValueError"]
          ELSE
          LET a == add_object(st1, new_page, None, None)
              new_page_ref == a.res
              counted == get_object(a.st, pages_obj_ref).res
              kids == DictGet(counted.d, "Kids")
              st2 == mutate(a.st, pages_obj_ref,
                            [counted EXCEPT !.d =
                                DictSet(@, "Kids",
                                        ArrayObject(ListInsert(kids.a, c.kid_ix + 1,
                                                               new_page_ref)))])
              st3 == mutate(st2, new_page_ref,
                            [new_page EXCEPT !.d = DictSet(@, "Parent", pages_obj_ref)])
          IN [st |-> st3, status |-> "ok", res |-> new_page_ref]

\* insert_page naming the page tree root as the parent of every new page
insert_page_parent_is_root(st, new_page, after) ==
    IF ~ DictHas(new_page.d, "Type")
    THEN [st |-> st, status |-> "KeyError"]
    ELSE IF DictGet(new_page.d, "Type") # NameObject("Page")
    THEN [st |-> st, status |-> "ValueError"]
    ELSE IF DictHas(new_page.d, "Parent")
    THEN [st |-> st, status |-> "ValueError"]
    ELSE
    LET page_tree_root_ref == DictGet(root(st).d, "Pages")
        after1 == IF after = None
                  THEN DictGet(get_object(st, page_tree_root_ref).res.d, "Count").v - 1
                  ELSE after[1]
        c == IF after1 = -1
             THEN [status |-> "ok", pages_obj_ref |-> page_tree_root_ref, kid_ix |-> -1]
             ELSE find_page_container(st, after1)
    IN IF c.status # "ok"
       THEN [st |-> st, status |-> c.status]
       ELSE
       LET pages_obj_ref == c.pages_obj_ref
           pages_obj == get_object(st, pages_obj_ref).res
       IN IF ~ DictHas(pages_obj.d, "Kids")
          THEN [st |-> st, status |-> "ValueError"]
          ELSE
          LET st1 == increase_page_counts(st, pages_obj_ref)
              a == add_object(st1, new_page, None, None)
              new_page_ref == a.res
              counted == get_object(a.st, pages_obj_ref).res
              kids == DictGet(counted.d, "Kids")
              st2 == mutate(a.st, pages_obj_ref,
                            [counted EXCEPT !.d =
                                DictSet(@, "Kids",
                                        ArrayObject(ListInsert(kids.a, c.kid_ix + 1,
                                                               new_page_ref)))])
              st3 == mutate(st2, new_page_ref,
                            [new_page EXCEPT !.d = DictSet(@, "Parent", page_tree_root_ref)])
          IN [st |-> st3, status |-> "ok", res |-> new_page_ref]

\* BasePdfFileWriter.insert_page(new_page, after)
insert_page(st, new_page, after) ==
    IF ~ DictHas(new_page.d, "Type")
    THEN [st |-> st, status |-> "KeyError"]
    ELSE IF DictGet(new_page.d, "Type") # NameObject("Page")
    THEN [st |-> st, status |-> "ValueError"]
    ELSE IF DictHas(new_page.d, "Parent")
    THEN [st |-> st, status |-> "ValueError"]
    ELSE
    LET page_tree_root_ref == DictGet(root(st).d, "Pages")
        after1 == IF after = None
                  THEN DictGet(get_object(st, page_tree_root_ref).res.d, "Count").v - 1
                  ELSE after[1]
        c == IF after1 = -1
             THEN [status |-> "ok", pages_obj_ref |-> page_tree_root_ref, kid_ix |-> -1]
             ELSE find_page_container(st, after1)
    IN IF c.status # "ok"
       THEN [st |-> st, status |-> c.status]
       ELSE
       LET pages_obj_ref == c.pages_obj_ref
           pages_obj == get_object(st, pages_obj_ref).res
       IN IF ~ DictHas(pages_obj.d, "Kids")
          THEN [st |-> st, status |-> "ValueError"]
          ELSE
          LET st1 == increase_page_counts(st, pages_obj_ref)
              a == add_object(st1, new_page, None, None)
              new_page_ref == a.res
              counted == get_object(a.st, pages_obj_ref).res
              kids == DictGet(counted.d, "Kids")
              st2 == mutate(a.st, pages_obj_ref,
                            [counted EXCEPT !.d =
                                DictSet(@, "Kids",
                                        ArrayObject(ListInsert(kids.a, c.kid_ix + 1,
                                                               new_page_ref)))])
              st3 == mutate(st2, new_page_ref,
                            [new_page EXCEPT !.d = DictSet(@, "Parent", pages_obj_ref)])
          IN [st |-> st3, status |-> "ok", res |-> new_page_ref]

\* ------------------------------------------------------------------ import_object

\* generic.DecryptedObjectProxy: a value read from an encrypted document
DecryptedObjectProxy(v) == [kind |-> "proxy", decrypted |-> v]

\* a reference into the document objects are imported from
ForeignRef(i) == IndirectObject(i, 0, "other")

\* The objects of that document: 1 is a dictionary that refers to itself and
\* twice to 2; 2 is a stream (read through the decrypting proxy) that refers
\* back to 1; 3 is a bare reference to 2.
ForeignObjects ==
    (1 :> DictionaryObject(<< <<"Self", ForeignRef(1)>>, <<"Next", ForeignRef(2)>>,
                              <<"Again", ForeignRef(2)>> >>)) @@
    (2 :> DecryptedObjectProxy(
              StreamObject(<< <<"Back", ForeignRef(1)>> >>, "encoded"))) @@
    (3 :> ForeignRef(2))

\* IndirectObject.get_object(): the owner of the reference resolves it
dereference(st, obj) ==
    IF obj.pdf = "self"
    THEN get_object(st, obj)
    ELSE IF obj.generation = 0 /\ obj.idnum \in DOMAIN ForeignObjects
    THEN [status |-> "ok", res |-> ForeignObjects[obj.idnum]]
    ELSE [status |-> "KeyError"]

\* obj.reference, the key of reference_map
Reference(obj) == << obj.idnum, obj.generation, obj.pdf >>

\* BasePdfFileWriter._import_object(obj, reference_map, obj_stream); the
\* reference_map is handed on from call to call, as the writer is. import_items
\* is the comprehension over the values of a dictionary or of an array.
RECURSIVE import_object_rec(_, _, _, _)
RECURSIVE import_items(_, _, _, _)

\* the comprehension handing every item the reference_map of the caller as
\* it was before the first item: what one item recorded is lost to the next
import_items_forgetful(st, items, reference_map, obj_stream) ==
    IF items = << >>
    THEN [st |-> st, reference_map |-> reference_map, status |-> "ok", res |-> << >>]
    ELSE LET h == import_object_rec(st, Head(items), reference_map, obj_stream) IN
         IF h.status # "ok"
         THEN h
         ELSE LET t == import_items(h.st, Tail(items), reference_map, obj_stream) IN
              IF t.status # "ok"
              THEN t
              ELSE [t EXCEPT !.res = << h.res >> \o @,
                             !.reference_map = @ @@ h.reference_map]

\* the comprehension keeping the item of the source where it imported one
import_items_unresolved(st, items, reference_map, obj_stream) ==
    IF items = << >>
    THEN [st |-> st, reference_map |-> reference_map, status |-> "ok", res |-> << >>]
    ELSE LET h == import_object_rec(st, Head(items), reference_map, obj_stream) IN
         IF h.status # "ok"
         THEN h
         ELSE LET t == import_items(h.st, Tail(items), h.reference_map, obj_stream) IN
              IF t.status # "ok"
              THEN t
              ELSE [t EXCEPT !.res = << Head(items) >> \o @]

import_items(st, items, reference_map, obj_stream) ==
    IF items = << >>
    THEN [st |-> st, reference_map |-> reference_map, status |-> "ok", res |-> << >>]
    ELSE LET h == import_object_rec(st, Head(items), reference_map, obj_stream) IN
         IF h.status # "ok"
         THEN h
         ELSE LET t == import_items(h.st, Tail(items), h.reference_map, obj_stream) IN
              IF t.status # "ok"
              THEN t
              ELSE [t EXCEPT !.res = << h.res >> \o @]

\* _import_object handing the container of the caller to add_object whatever
\* the imported value is
import_object_rec_no_redirect(st, obj0, reference_map, obj_stream) ==
    LET obj == IF obj0.kind = "proxy" THEN obj0.decrypted ELSE obj0 IN
    IF obj.kind = "ref"
    THEN IF Reference(obj) \in DOMAIN reference_map
         THEN [st |-> st, reference_map |-> reference_map, status |-> "ok",
               res |-> reference_map[Reference(obj)]]
         ELSE LET refd == dereference(st, obj) IN
              IF refd.status # "ok"
              THEN [st |-> st, reference_map |-> reference_map, status |-> refd.status]
              ELSE
              LET p == allocate_placeholder(st)
                  new_ido == p.res
                  i == import_object_rec(p.st, refd.res,
                                         (Reference(obj) :> new_ido) @@ reference_map,
                                         obj_stream)
              IN IF i.status # "ok"
                 THEN i
                 ELSE
                 LET target == obj_stream
                     a == add_object(i.st, i.res, target, Some(new_ido.idnum))
                 IN IF a.status # "ok"
                    THEN [st |-> a.st, reference_map |-> i.reference_map,
                          status |-> a.status]
                    ELSE [st |-> a.st, reference_map |-> i.reference_map,
                          status |-> "ok", res |-> new_ido]
    ELSE IF obj.kind \in {"dict", "stream"}
    THEN LET r == import_items(st, [j \in DOMAIN obj.d |-> obj.d[j][2]],
                               reference_map, obj_stream)
         IN IF r.status # "ok"
            THEN r
            ELSE LET raw_dict == [j \in DOMAIN obj.d |-> << obj.d[j][1], r.res[j] >>] IN
                 [r EXCEPT !.res = IF obj.kind = "stream"
                                   THEN StreamObject(raw_dict, obj.data)
                                   ELSE DictionaryObject(raw_dict)]
    ELSE IF obj.kind = "array"
    THEN LET r == import_items(st, obj.a, reference_map, obj_stream) IN
         IF r.status # "ok" THEN r ELSE [r EXCEPT !.res = ArrayObject(@)]
    ELSE [st |-> st, reference_map |-> reference_map, status |-> "ok", res |-> obj]

\* _import_object returning a reference of this writer as it is
import_object_rec_own_unchanged(st, obj0, reference_map, obj_stream) ==
    LET obj == IF obj0.kind = "proxy" THEN obj0.decrypted ELSE obj0 IN
    IF obj.kind = "ref" /\ obj.pdf = "self"
    THEN [st |-> st, reference_map |-> reference_map, status |-> "ok", res |-> obj]
    ELSE IF obj.kind = "ref"
    THEN IF Reference(obj) \in DOMAIN reference_map
         THEN [st |-> st, reference_map |-> reference_map, status |-> "ok",
               res |-> reference_map[Reference(obj)]]
         ELSE LET refd == dereference(st, obj) IN
              IF refd.status # "ok"
              THEN [st |-> st, reference_map |-> reference_map, status |-> refd.status]
              ELSE
              LET p == allocate_placeholder(st)
                  new_ido == p.res
                  i == import_object_rec(p.st, refd.res,
                                         (Reference(obj) :> new_ido) @@ reference_map,
                                         obj_stream)
              IN IF i.status # "ok"
                 THEN i
                 ELSE
                 LET target == IF i.res.kind \in OBJSTREAM_FORBIDDEN
                               THEN None ELSE obj_stream
                     a == add_object(i.st, i.res, target, Some(new_ido.idnum))
                 IN IF a.status # "ok"
                    THEN [st |-> a.st, reference_map |-> i.reference_map,
                          status |-> a.status]
                    ELSE [st |-> a.st, reference_map |-> i.reference_map,
                          status |-> "ok", res |-> new_ido]
    ELSE IF obj.kind \in {"dict", "stream"}
    THEN LET r == import_items(st, [j \in DOMAIN obj.d |-> obj.d[j][2]],
                               reference_map, obj_stream)
         IN IF r.status # "ok"
            THEN r
            ELSE LET raw_dict == [j \in DOMAIN obj.d |-> << obj.d[j][1], r.res[j] >>] IN
                 [r EXCEPT !.res = IF obj.kind = "stream"
                                   THEN StreamObject(raw_dict, obj.data)
                                   ELSE DictionaryObject(raw_dict)]
    ELSE IF obj.kind = "array"
    THEN LET r == import_items(st, obj.a, reference_map, obj_stream) IN
         IF r.status # "ok" THEN r ELSE [r EXCEPT !.res = ArrayObject(@)]
    ELSE [st |-> st, reference_map |-> reference_map, status |-> "ok", res |-> obj]

import_object_rec(st, obj0, reference_map, obj_stream) ==
    LET obj == IF obj0.kind = "proxy" THEN obj0.decrypted ELSE obj0 IN
    IF obj.kind = "ref"
    THEN IF Reference(obj) \in DOMAIN reference_map
         THEN [st |-> st, reference_map |-> reference_map, status |-> "ok",
               res |-> reference_map[Reference(obj)]]
         ELSE LET refd == dereference(st, obj) IN
              IF refd.status # "ok"
              THEN [st |-> st, reference_map |-> reference_map, status |-> refd.status]
              ELSE
              LET p == allocate_placeholder(st)
                  new_ido == p.res
                  i == import_object_rec(p.st, refd.res,
                                         (Reference(obj) :> new_ido) @@ reference_map,
                                         obj_stream)
              IN IF i.status # "ok"
                 THEN i
                 ELSE
                 LET target == IF i.res.kind \in OBJSTREAM_FORBIDDEN
                               THEN None ELSE obj_stream
                     a == add_object(i.st, i.res, target, Some(new_ido.idnum))
                 IN IF a.status # "ok"
                    THEN [st |-> a.st, reference_map |-> i.reference_map,
                          status |-> a.status]
                    ELSE [st |-> a.st, reference_map |-> i.reference_map,
                          status |-> "ok", res |-> new_ido]
    ELSE IF obj.kind \in {"dict", "stream"}
    THEN LET r == import_items(st, [j \in DOMAIN obj.d |-> obj.d[j][2]],
                               reference_map, obj_stream)
         IN IF r.status # "ok"
            THEN r
            ELSE LET raw_dict == [j \in DOMAIN obj.d |-> << obj.d[j][1], r.res[j] >>] IN
                 [r EXCEPT !.res = IF obj.kind = "stream"
                                   THEN StreamObject(raw_dict, obj.data)
                                   ELSE DictionaryObject(raw_dict)]
    ELSE IF obj.kind = "array"
    THEN LET r == import_items(st, obj.a, reference_map, obj_stream) IN
         IF r.status # "ok" THEN r ELSE [r EXCEPT !.res = ArrayObject(@)]
    ELSE [st |-> st, reference_map |-> reference_map, status |-> "ok", res |-> obj]

\* BasePdfFileWriter.import_object(obj, obj_stream)
import_object(st, obj, obj_stream) == import_object_rec(st, obj, << >>, obj_stream)

\* ------------------------------------------------------------------ inputs

\* values a caller hands to add_object: a plain dictionary, a raw stream and
\* a bare reference
PlainDict == DictionaryObject(<< <<"Tag", NameObject("v")>> >>)
RawStream == StreamObject(<< <<"Length", NumberObject(1)>> >>, "bytes")
BareRef == IndirectObject(1, 0, "self")
InputValues == {PlainDict, RawStream, BareRef}

\* pages a caller hands to insert_page: a new page, a dictionary of another
\* type, a dictionary without a type and a page that names a parent already
NewPage == DictionaryObject(<< <<"Type", NameObject("Page")>> >>)
NotAPage == DictionaryObject(<< <<"Type", NameObject("Font")>> >>)
AdoptedPage ==
    DictionaryObject(<< <<"Type", NameObject("Page")>>, <<"Parent", OwnRef(3)>> >>)
PageInputs == {NewPage, NotAPage, PlainDict, AdoptedPage}

\* the number of pages of the document
PageCount == DictGet(objects[<<0, 3>>].d, "Count").v

\* the "after" argument of insert_page: absent, -1, a page index or one past
AfterArgs == {None} \cup { Some(k) : k \in -1 .. PageCount }

\* values a caller hands to import_object: references into the other document
\* (4 does not exist there), an array that names one object twice, and a
\* reference of this writer
ImportInputs ==
    { ForeignRef(1), ForeignRef(3), ForeignRef(4),
      ArrayObject(<< ForeignRef(2), ForeignRef(2) >>), OwnRef(3) }

\* handles of the ObjectStream instances that exist
Handles == DOMAIN heap

\* ids a caller names in the actions: the pending placeholders, the page tree
\* root (an id that never was a placeholder) and the next, unallocated id
CallerIds == allocated_placeholders \cup {3, lastobj_id + 1}

\* references a caller resolves: its own to those ids, and for the page tree
\* root that of another owner and that of another generation
CallerRefs ==
    { OwnRef(i) : i \in CallerIds }
        \cup { IndirectObject(3, 0, "other"), IndirectObject(3, 1, "self") }

\* ids, references and optional arguments the properties range over
AllIds == 0 .. (MaxId + 1)
AllRefs ==
    { IndirectObject(i, g, p) : i \in AllIds, g \in {0, 1}, p \in {"self", "other"} }
AllIdArgs == {None} \cup { Some(i) : i \in AllIds }
AllStreamArgs == {None} \cup { Some(h) : h \in Handles }

\* ------------------------------------------------------------------ actions

\* The actions hand the writer from one call to the next. What a call returns
\* or raises is the value of its operator; a call that raises before it has
\* assigned anything leaves the state as it is.

\* a caller builds an ObjectStream of its own: ObjectStream()
NewObjectStream ==
    /\ Len(heap) < MaxStreams
    /\ heap' = Append(heap, ObjectStreamInit(TRUE))
    /\ UNCHANGED << security_handler, encrypt, output_version, glyphs, extracted,
                    objects, object_streams, objs_in_streams, lastobj_id,
                    allocated_placeholders, stream_xrefs, returned,
                    chunk_arg, chunk_res >>

AllocatePlaceholder ==
    /\ lastobj_id < MaxId
    /\ Install(allocate_placeholder(Writer).st)
    /\ UNCHANGED << chunk_arg, chunk_res, glyphs, extracted >>

AddObject ==
    \E obj \in InputValues, obj_stream \in {None} \cup {Some(h) : h \in Handles},
       idnum \in {None} \cup {Some(i) : i \in CallerIds} :
        /\ idnum = None => lastobj_id < MaxId
        /\ Install(add_object(Writer, obj, obj_stream, idnum).st)
        /\ UNCHANGED << chunk_arg, chunk_res, glyphs, extracted >>

PrepareObjectStream ==
    \E compress \in BOOLEAN :
        /\ Len(heap) < MaxStreams
        /\ Install(prepare_object_stream(Writer, compress).st)
        /\ UNCHANGED << chunk_arg, chunk_res, glyphs, extracted >>

GetObject ==
    \E ido \in CallerRefs :
        /\ get_object(Writer, ido).status \in {"ok", "KeyError", "ValueError"}
        /\ UNCHANGED vars

InsertPage ==
    \E new_page \in PageInputs, after \in AfterArgs :
        /\ lastobj_id < MaxId
        /\ Install(insert_page(Writer, new_page, after).st)
        /\ UNCHANGED << chunk_arg, chunk_res, glyphs, extracted >>

ImportObject ==
    \E obj \in ImportInputs, obj_stream \in AllStreamArgs :
        LET r == import_object(Writer, obj, obj_stream) IN
        /\ r.st.lastobj_id <= MaxId
        /\ Install(r.st)
        /\ UNCHANGED << chunk_arg, chunk_res, glyphs, extracted >>

\* write(stream) on a fresh output stream; what is written is the value of
\* write(Writer).stream
Write ==
    /\ lastobj_id + Len(object_streams) <= MaxId
    /\ Install(write(Writer).st)
    /\ UNCHANGED << chunk_arg, chunk_res, glyphs, extracted >>

Next ==
    \/ NewObjectStream
    \/ AllocatePlaceholder
    \/ AddObject
    \/ PrepareObjectStream
    \/ GetObject
    \/ InsertPage
    \/ ImportObject
    \/ Write

Spec == Init /\ [][Next]_vars

\* ------------------------------------------------------------------ the attribute stream_xrefs reassigned

\* stream_xrefs is a public attribute of the writer: writer.stream_xrefs = b
SetStreamXrefs ==
    \E b \in BOOLEAN :
        /\ stream_xrefs' = b
        /\ UNCHANGED << security_handler, encrypt, output_version, glyphs, extracted,
                    objects, object_streams, objs_in_streams, lastobj_id,
                        allocated_placeholders, heap, returned, chunk_arg,
                        chunk_res >>

NextAssign == Next \/ SetStreamXrefs

SpecAssign == Init /\ [][NextAssign]_vars

\* ------------------------------------------------------------------ the chunking helper alone

\* A position map over the ids of S: an even id is a member of an object
\* stream (a pair <<container id, index>>), an odd id has a byte offset; the
\* id g, if in S, has generation 1.
PositionMap(S, g) ==
    [ key \in { <<IF i = g THEN 1 ELSE 0, i>> : i \in S } |->
        IF key[2] % 2 = 0
        THEN InStream(MaxChunkId + 1, key[2] \div 2)
        ELSE Offset(100 + key[2]) ]

InitChunks ==
    /\ \E S \in SUBSET (1 .. MaxChunkId) \ {{}}, g \in 0 .. MaxChunkId :
        /\ g = 0 \/ g \in S
        /\ chunk_arg = PositionMap(S, g)
    /\ chunk_res = None
    /\ glyphs = << >>
    /\ extracted = FALSE
    /\ LET st == PdfFileWriterInit(TRUE) IN
        /\ objects = st.objects
        /\ object_streams = st.object_streams
        /\ objs_in_streams = st.objs_in_streams
        /\ lastobj_id = st.lastobj_id
        /\ allocated_placeholders = st.allocated_placeholders
        /\ stream_xrefs = st.stream_xrefs
        /\ heap = st.heap
        /\ returned = st.returned
        /\ security_handler = st.security_handler
        /\ encrypt = st.encrypt
        /\ output_version = st.output_version

\* list(_contiguous_xref_chunks(position_dict))
ContiguousXrefChunks ==
    /\ chunk_res = None
    /\ chunk_res' = Some(contiguous_xref_chunks(chunk_arg))
    /\ UNCHANGED << security_handler, encrypt, output_version, glyphs, extracted,
                    objects, object_streams, objs_in_streams, lastobj_id,
                    allocated_placeholders, stream_xrefs, heap, returned,
                    chunk_arg >>

NextChunks == ContiguousXrefChunks

SpecChunks == InitChunks /\ [][NextChunks]_vars

\* ------------------------------------------------------------------ properties

\* a page tree container node (insert_page updates these in place)
IsPagesNode(v) ==
    /\ v.kind = "dict"
    /\ DictHas(v.d, "Type")
    /\ DictGet(v.d, "Type") = NameObject("Pages")

\* the ids stored directly, whatever their generation
DirectIds == { key[2] : key \in DOMAIN objects }

\* C1: every allocate_placeholder() and every add_object(value) without an
\* explicit id returns generation 0 and an id greater than every id returned
\* before, so the ids handed out are pairwise different; add_object(value,
\* id=p) returns the identity of the pending placeholder p and allocates
\* nothing.
C1_FreshIdentities ==
    /\ \A i, j \in DOMAIN returned : i < j => returned[i] < returned[j]
    /\ LET r == allocate_placeholder(Writer) IN
        /\ r.status = "ok"
        /\ r.res.generation = 0
        /\ \A k \in Range(returned) : k < r.res.idnum
    /\ \A obj \in InputValues, s \in AllStreamArgs :
        LET r == add_object(Writer, obj, s, None) IN
        r.status = "ok" =>
            /\ r.res.generation = 0
            /\ \A k \in Range(returned) : k < r.res.idnum
    /\ \A obj \in InputValues, s \in AllStreamArgs, p \in AllIds :
        LET r == add_object(Writer, obj, s, Some(p)) IN
        r.status = "ok" =>
            /\ p \in allocated_placeholders
            /\ r.res = OwnRef(p)
            /\ r.st.lastobj_id = lastobj_id
            /\ r.st.returned = returned

\* C1 witness: five ids were handed out, a placeholder was populated into a
\* container after a later id had been handed out, and another placeholder is
\* pending, which add_object(value, id) returns the identity of
C1_Witness ==
    /\ Len(returned) >= 5
    /\ \E p \in DOMAIN objs_in_streams : p < lastobj_id
    /\ \E q \in allocated_placeholders :
        add_object(Writer, PlainDict, None, Some(q)).res = OwnRef(q)

\* C2: in every reachable state each id is in at most one of self.objects,
\* self.objs_in_streams and the pending placeholders; populating a
\* placeholder removes it from the pending set and stores it in exactly one
\* of the two maps.
C2_OneHomePerId ==
    /\ DirectIds \cap DOMAIN objs_in_streams = {}
    /\ DirectIds \cap allocated_placeholders = {}
    /\ DOMAIN objs_in_streams \cap allocated_placeholders = {}
    /\ \A obj \in InputValues, s \in AllStreamArgs, p \in allocated_placeholders :
        LET r == add_object(Writer, obj, s, Some(p)) IN
        r.status = "ok" =>
            /\ p \notin r.st.allocated_placeholders
            /\ (<<0, p>> \in DOMAIN r.st.objects) # (p \in DOMAIN r.st.objs_in_streams)

\* C2 witness: ids are stored directly, one id is stored in a container and
\* a placeholder is pending that add_object populates into that container
C2_Witness ==
    /\ DirectIds # {}
    /\ \E q \in allocated_placeholders, h \in Range(object_streams) :
        /\ heap[h].obj_refs # << >>
        /\ add_object(Writer, PlainDict, Some(h), Some(q)).status = "ok"

\* C3, state part: a pending placeholder resolves to the null object, and
\* populating it makes it resolve to the populated value
C3_PendingIsNull ==
    /\ \A p \in allocated_placeholders :
        get_object(Writer, OwnRef(p)) = [status |-> "ok", res |-> NullObject]
    /\ \A obj \in InputValues, s \in AllStreamArgs, p \in allocated_placeholders :
        LET r == add_object(Writer, obj, s, Some(p)) IN
        r.status = "ok" =>
            get_object(r.st, OwnRef(p)) = [status |-> "ok", res |-> obj]

\* C3, step part: a placeholder stays pending until an add_object (a caller's
\* or import_object's own) stores a value under it, and what a populated id
\* resolves to is the same object after every later step (a page tree node
\* is that same node, updated in place by insert_page)
C3_ResolutionIsStable ==
    \A i \in AllIds :
        LET g == get_object(Writer, OwnRef(i))
            g2 == get_object(Writer', OwnRef(i))
        IN /\ (i \in allocated_placeholders /\ i \notin allocated_placeholders')
                => (<<0, i>> \in DOMAIN objects' \/ i \in DOMAIN objs_in_streams')
           /\ (g.status = "ok" /\ i \notin allocated_placeholders)
                => /\ g2.status = "ok"
                   /\ i \notin allocated_placeholders'
                   /\ \/ g2.res = g.res
                      \/ IsPagesNode(g.res) /\ IsPagesNode(g2.res)

\* C3: from allocate_placeholder() until add_object(v, id=r.id), get_object(r)
\* returns the null object and never raises, whatever is interleaved; after
\* the populate every get_object(r) returns v.
C3_PlaceholderSafety ==
    /\ []C3_PendingIsNull
    /\ [][C3_ResolutionIsStable]_vars

\* C3 witness: a placeholder is still pending and resolves to the null
\* object after a later id was stored in a container
C3_Witness ==
    \E p \in allocated_placeholders :
        /\ get_object(Writer, OwnRef(p)) = [status |-> "ok", res |-> NullObject]
        /\ \E i \in DOMAIN objs_in_streams : p < i

\* C4: add_object(value, id=i) succeeds only if i is pending; for any other
\* id (never allocated, or already populated) it fails with a write error
\* and changes nothing; when it succeeds i leaves the pending set and the
\* cursor does not advance.
C4_ExplicitIdMustBePending ==
    \A obj \in InputValues, s \in AllStreamArgs, i \in AllIds :
        LET r == add_object(Writer, obj, s, Some(i)) IN
        /\ i \notin allocated_placeholders
            => r.status = "PdfWriteError" /\ r.st = Writer
        /\ r.status = "ok"
            => /\ i \in allocated_placeholders
               /\ i \notin r.st.allocated_placeholders
               /\ r.st.lastobj_id = lastobj_id

\* C4 witness: a placeholder was populated into a container, so a second
\* populate of it is rejected, as is the id that was never allocated, while
\* another placeholder is pending
C4_Witness ==
    /\ allocated_placeholders # {}
    /\ \E i \in DOMAIN objs_in_streams :
        /\ \E p \in allocated_placeholders : i < p
        /\ add_object(Writer, PlainDict, None, Some(i)).status = "PdfWriteError"
    /\ add_object(Writer, PlainDict, None, Some(lastobj_id + 1)).status = "PdfWriteError"

\* C5: no raw stream and no bare reference is a member of any ObjectStream
\* in any reachable state (import_object stores such a value directly);
\* add_object of such a value with a container is rejected and changes
\* nothing (a placeholder passed as id stays pending).
C5_ContainerLegality ==
    /\ \A h \in Handles : \A k \in DOMAIN heap[h].obj_refs :
        heap[h].obj_refs[k][2].kind \notin OBJSTREAM_FORBIDDEN
    /\ \A i \in DOMAIN objs_in_streams :
        objs_in_streams[i].kind \notin OBJSTREAM_FORBIDDEN
    /\ \A obj \in InputValues, h \in Handles, idnum \in AllIdArgs :
        obj.kind \in OBJSTREAM_FORBIDDEN =>
            LET r == add_object(Writer, obj, Some(h), idnum) IN
            r.status # "ok" /\ r.st = Writer

\* C5 witness: import_object with a container has stored the imported
\* dictionary in the container and the imported stream directly, and
\* ObjectStream.add_object raises for a raw stream offered to that container
C5_Witness ==
    /\ \E i \in DOMAIN objs_in_streams :
        objs_in_streams[i].kind = "dict" /\ DictHas(objs_in_streams[i].d, "Self")
    /\ \E key \in DOMAIN objects :
        objects[key].kind = "stream" /\ DictHas(objects[key].d, "Back")
    /\ \E h \in Range(object_streams) :
        /\ heap[h].obj_refs # << >>
        /\ add_object(Writer, RawStream, Some(h), None).status = "TypeError"

\* C6: add_object(value, container=b) with b not registered by this writer's
\* prepare_object_stream() fails with a write error and changes nothing.
C6_UnknownContainer ==
    \A obj \in InputValues, h \in Handles \ Range(object_streams),
       idnum \in AllIdArgs :
        LET r == add_object(Writer, obj, Some(h), idnum) IN
        r.status = "PdfWriteError" /\ r.st = Writer

\* C6 witness: a standalone stream, a registered stream with a member and a
\* pending placeholder p exist, and add_object(v, standalone, p) is rejected
C6_Witness ==
    /\ \E h \in Range(object_streams) : heap[h].obj_refs # << >>
    /\ \E h \in Handles \ Range(object_streams), p \in allocated_placeholders :
        add_object(Writer, PlainDict, Some(h), Some(p)).status = "PdfWriteError"

\* C7: add_object(value, container=b) fails whenever stream_xrefs is false at
\* the time of the call, also for a b that prepare_object_stream() returned
\* while stream_xrefs was true; so a writer whose stream_xrefs is false holds
\* no object in a container.
C7_ContainerNeedsStreamXrefs ==
    ~ stream_xrefs =>
        /\ \A obj \in InputValues, h \in Handles, idnum \in AllIdArgs :
            add_object(Writer, obj, Some(h), idnum).status # "ok"
        /\ objs_in_streams = << >>

\* C7, the state the claim is about: stream_xrefs is false, a stream that
\* prepare_object_stream() returned earlier is registered, and add_object
\* stores a dictionary in it
C7_Witness ==
    /\ ~ stream_xrefs
    /\ \E h \in Range(object_streams) :
        LET r == add_object(Writer, PlainDict, Some(h), None) IN
        /\ r.status = "ok"
        /\ r.res.idnum \in DOMAIN r.st.objs_in_streams

\* C8: prepare_object_stream(compress) fails and registers nothing without
\* stream_xrefs; otherwise it returns a new, empty stream with the given
\* compress flag, appended to object_streams, and nothing else changes.
C8_PrepareObjectStream ==
    \A compress \in BOOLEAN :
        LET r == prepare_object_stream(Writer, compress) IN
        IF ~ stream_xrefs
        THEN r.status = "PdfWriteError" /\ r.st = Writer
        ELSE /\ r.status = "ok"
             /\ r.res \notin Handles
             /\ r.st.heap[r.res] = [obj_refs |-> << >>, compress |-> compress]
             /\ r.st.object_streams = Append(object_streams, r.res)
             /\ \A h \in Handles : r.st.heap[h] = heap[h]
             /\ DOMAIN r.st.heap = Handles \cup {r.res}
             /\ r.st.objects = objects
             /\ r.st.objs_in_streams = objs_in_streams
             /\ r.st.allocated_placeholders = allocated_placeholders
             /\ r.st.lastobj_id = lastobj_id

\* C8 witness: a second stream, uncompressed, was prepared after the first
\* had a member, and is empty
C8_Witness ==
    /\ stream_xrefs
    /\ Len(object_streams) = 2
    /\ heap[object_streams[1]].obj_refs # << >>
    /\ heap[object_streams[2]] = [obj_refs |-> << >>, compress |-> FALSE]

\* C9: get_object fails with the foreign-reference error (ValueError) for a
\* reference of another owner, whatever its id; returns the null object for a
\* pending generation-0 placeholder; fails with the missing-object error
\* (KeyError) when the identity is neither stored nor pending.
C9_GetObjectOutcomes ==
    \A ido \in AllRefs :
        LET r == get_object(Writer, ido)
            key == <<ido.generation, ido.idnum>>
        IN /\ ido.pdf # "self" => r.status = "ValueError"
           /\ (ido.pdf = "self" /\ ido.generation = 0
                 /\ ido.idnum \in allocated_placeholders)
                => r = [status |-> "ok", res |-> NullObject]
           /\ (ido.pdf = "self" /\ key \notin DOMAIN objects
                 /\ ~ (ido.generation = 0
                        /\ ido.idnum \in DOMAIN objs_in_streams
                                          \cup allocated_placeholders))
                => r.status = "KeyError"
           /\ (ido.pdf = "self" /\ key \in DOMAIN objects)
                => r = [status |-> "ok", res |-> objects[key]]

\* C9 witness: with a pending placeholder p and a container member, the
\* reference of another owner to p's id fails with the foreign-reference
\* error, p resolves to the null object, its generation 1 is missing
C9_Witness ==
    /\ DOMAIN objs_in_streams # {}
    /\ \E p \in allocated_placeholders :
        /\ get_object(Writer, IndirectObject(p, 0, "other")).status = "ValueError"
        /\ get_object(Writer, OwnRef(p)).status = "ok"
        /\ get_object(Writer, IndirectObject(p, 1, "self")).status = "KeyError"

\* the <<idnum, position, generation>> entries a sequence of chunks stands
\* for: the j-th entry of a chunk is the entry of id first_idnum + j - 1
RECURSIVE ChunkEntries(_)
ChunkEntries(subsections) ==
    IF subsections = << >>
    THEN << >>
    ELSE LET first_idnum == Head(subsections)[1]
             chunk == Head(subsections)[2]
         IN [ j \in DOMAIN chunk |-> <<first_idnum + j - 1, chunk[j][1], chunk[j][2]>> ]
            \o ChunkEntries(Tail(subsections))

\* what C10 says of the chunks cs yielded for the position map pd
ChunksPartition(pd, cs, entries) ==
    /\ Len(cs) >= 1
    /\ \A c \in DOMAIN cs : cs[c][2] # << >>
    /\ \A c \in DOMAIN cs : c > 1 =>
        cs[c][1] >= cs[c - 1][1] + Len(cs[c - 1][2]) + 1
    /\ Len(entries) = Cardinality(DOMAIN pd)
    /\ \A e \in DOMAIN entries : e > 1 => entries[e - 1][1] < entries[e][1]
    /\ \A e \in DOMAIN entries :
        /\ <<entries[e][3], entries[e][1]>> \in DOMAIN pd
        /\ entries[e][2] = pd[<<entries[e][3], entries[e][1]>>]
    /\ \A key \in DOMAIN pd :
        Cardinality({ e \in DOMAIN entries : entries[e][1] = key[2] }) = 1

\* C10: for a non-empty position map (its ids pairwise different, as in
\* every map write builds) the helper yields the entries in ascending id
\* order, split into maximal runs of consecutive ids: the j-th entry of a run
\* is the map's entry for first_id + j - 1, successive runs are separated by
\* a gap of at least 2, no run is empty, and the runs together hold every
\* entry of the map exactly once.
C10_ContiguousChunks ==
    chunk_res # None =>
        ChunksPartition(chunk_arg, chunk_res[1], ChunkEntries(chunk_res[1]))

\* C10 witness: the helper ran on the ids {1,2,3,7,8,10} and yielded the
\* three runs starting at 1, 7 and 10
C10_Witness ==
    /\ chunk_res # None
    /\ { key[2] : key \in DOMAIN chunk_arg } = {1, 2, 3, 7, 8, 10}
    /\ Len(chunk_res[1]) = 3
    /\ << chunk_res[1][1][1], chunk_res[1][2][1], chunk_res[1][3][1] >> = <<1, 7, 10>>
    /\ << Len(chunk_res[1][1][2]), Len(chunk_res[1][2][2]), Len(chunk_res[1][3][2]) >>
         = <<3, 2, 1>>

\* ------------------------------------------------------------------ the two index encoders alone

\* a position map over the ids of S with byte offsets only (what
\* _write_objects builds when no object stream is registered)
OffsetMap(S, g) ==
    [ key \in { <<IF i = g THEN 1 ELSE 0, i>> : i \in S } |-> Offset(100 + key[2]) ]

\* The encoders are handed a position map with byte offsets only, or one whose
\* even ids are members of an object stream; a member of an object stream has
\* generation 0 (XRefStream.write_to_stream asserts it), so only an odd id g
\* has generation 1.
InitIndex ==
    /\ \E S \in SUBSET (1 .. MaxChunkId) \ {{}}, g \in 0 .. MaxChunkId,
          mixed \in BOOLEAN :
        /\ g = 0 \/ (g \in S /\ g % 2 = 1)
        /\ chunk_arg = IF mixed THEN PositionMap(S, g) ELSE OffsetMap(S, g)
    /\ chunk_res = None
    /\ glyphs = << >>
    /\ extracted = FALSE
    /\ LET st == PdfFileWriterInit(TRUE) IN
        /\ objects = st.objects
        /\ object_streams = st.object_streams
        /\ objs_in_streams = st.objs_in_streams
        /\ lastobj_id = st.lastobj_id
        /\ allocated_placeholders = st.allocated_placeholders
        /\ stream_xrefs = st.stream_xrefs
        /\ heap = st.heap
        /\ returned = st.returned
        /\ security_handler = st.security_handler
        /\ encrypt = st.encrypt
        /\ output_version = st.output_version

\* _write_xref_table(stream, position_dict) on an empty stream
WriteXrefTable ==
    /\ chunk_res = None
    /\ chunk_res' = Some([encoder |-> "table",
                          out |-> write_xref_table(<< >>, chunk_arg)])
    /\ UNCHANGED << security_handler, encrypt, output_version, glyphs, extracted,
                    objects, object_streams, objs_in_streams, lastobj_id,
                    allocated_placeholders, stream_xrefs, heap, returned,
                    chunk_arg >>

\* XRefStream(position_dict).write_to_stream(stream)
XRefStreamWriteToStream ==
    /\ chunk_res = None
    /\ chunk_res' = Some([encoder |-> "stream",
                          out |-> XRefStream_write_to_stream(XRefStreamInit, chunk_arg)])
    /\ UNCHANGED << security_handler, encrypt, output_version, glyphs, extracted,
                    objects, object_streams, objs_in_streams, lastobj_id,
                    allocated_placeholders, stream_xrefs, heap, returned,
                    chunk_arg >>

NextIndex == WriteXrefTable \/ XRefStreamWriteToStream

SpecIndex == InitIndex /\ [][NextIndex]_vars

\* the ids of a position map, and the ids in ascending order
IdsOf(pd) == { key[2] : key \in DOMAIN pd }

RECURSIVE Ascending(_)
Ascending(S) ==
    IF S = {}
    THEN << >>
    ELSE LET m == CHOOSE m \in S : \A o \in S : m <= o
         IN << m >> \o Ascending(S \ {m})

\* the maximal runs of consecutive ids of S as <<first id, length>>, ascending
RunLength(S, s) == CHOOSE n \in 1 .. Cardinality(S) :
                      /\ \A k \in 0 .. (n - 1) : s + k \in S
                      /\ s + n \notin S
RunsOf(S) ==
    LET starts == Ascending({ s \in S : s - 1 \notin S })
    IN [ j \in DOMAIN starts |-> << starts[j], RunLength(S, starts[j]) >> ]

\* the ids a sequence of <<first id, length>> pairs lists, in order
RECURSIVE ListedIds(_)
ListedIds(pairs) ==
    IF pairs = << >>
    THEN << >>
    ELSE [ j \in 1 .. Head(pairs)[2] |-> Head(pairs)[1] + j - 1 ]
            \o ListedIds(Tail(pairs))

\* the "first_id length" subsection headers the legacy encoder wrote
IsHeader(tok) == tok.t = "header"
LegacyHeaders(stream) ==
    LET hs == SelectSeq(stream, IsHeader)
    IN [ j \in DOMAIN hs |-> << hs[j].idnum, hs[j].length >> ]

\* the <<first_id, length>> pairs of the /Index array of a cross-reference stream
IndexPairs(xref_stream) ==
    LET a == DictGet(xref_stream.d, "Index").a
    IN [ j \in 1 .. (Len(a) \div 2) |-> << a[2 * j - 1].v, a[2 * j].v >> ]

\* the legacy headers with a first header <<0, n + 1>> read as the free run
\* <<0, 1>> followed by the run <<1, n>>
SplitFreeRun(headers) ==
    IF headers[1][2] > 1
    THEN << <<0, 1>>, <<1, headers[1][2] - 1>> >> \o Tail(headers)
    ELSE headers

\* what the two encoders do with the position map at hand
LegacyOut == write_xref_table(<< >>, chunk_arg)
CompactOut == XRefStream_write_to_stream(XRefStreamInit, chunk_arg)

\* C11 as stated: the legacy subsection headers are the pairs of the compact
\* /Index array, with or without its leading <<0, 1>>.
C11_HeadersEqualIndex ==
    LegacyOut.status = "ok" =>
        \/ LegacyHeaders(LegacyOut.stream) = IndexPairs(CompactOut)
        \/ LegacyHeaders(LegacyOut.stream) = Tail(IndexPairs(CompactOut))

\* C11, amended: for a position map both encoders accept, the legacy
\* subsection headers and the pairs of the compact /Index array name the same
\* runs in the same ascending order once the free entry is accounted for: the
\* /Index array is <<0, 1>> followed by every run, and the legacy headers are
\* the same sequence except that a first run starting at id 1 is merged with
\* the free entry into the one header <<0, length + 1>>.
C11_SameRuns ==
    LegacyOut.status = "ok" =>
        /\ SplitFreeRun(LegacyHeaders(LegacyOut.stream)) = IndexPairs(CompactOut)
        /\ IndexPairs(CompactOut) = << <<0, 1>> >> \o RunsOf(IdsOf(chunk_arg))

\* C11 witness: the legacy encoder ran on the ids {1,2,3,7,8,10} and wrote the
\* headers (0,4) (7,2) (10,1), where the compact /Index lists (0,1) (1,3)
\* (7,2) (10,1)
C11_Witness ==
    /\ chunk_res # None
    /\ chunk_res[1].encoder = "table"
    /\ chunk_res[1].out.status = "ok"
    /\ IdsOf(chunk_arg) = {1, 2, 3, 7, 8, 10}
    /\ LegacyHeaders(chunk_res[1].out.stream) = << <<0, 4>>, <<7, 2>>, <<10, 1>> >>
    /\ IndexPairs(CompactOut) = << <<0, 1>>, <<1, 3>>, <<7, 2>>, <<10, 1>> >>

\* the in-use entries of the ids first .. first + length - 1 of the map pd
InUseEntries(pd, first, length) ==
    [ j \in 1 .. length |->
        LET key == CHOOSE key \in DOMAIN pd : key[2] = first + j - 1
        IN [t |-> "entry", position |-> pd[key].offset, generation |-> key[1]] ]

\* one later subsection: its header and one in-use entry per id of the run
LaterSubsection(pd, run) ==
    << [t |-> "header", idnum |-> run[1], length |-> run[2]] >>
        \o InUseEntries(pd, run[1], run[2])

IsFree(tok) == tok.t = "free"

\* C12: the legacy index holds exactly one free entry, that of id 0 with
\* generation 65535, and it is the first entry; a lowest id of 1 puts it in
\* the first subsection, whose header is (0, run length + 1); otherwise it has
\* the subsection (0, 1) to itself and the first run follows with header
\* (first_id, run length); each later subsection has header (first_id, run
\* length) and one in-use entry per id of its run.
C12_LegacyFreeEntry ==
    LegacyOut.status = "ok" =>
        LET toks == LegacyOut.stream
            runs == RunsOf(IdsOf(chunk_arg))
            free == [t |-> "free", position |-> 0, generation |-> 65535]
            first == IF runs[1][1] = 1
                     THEN << [t |-> "header", idnum |-> 0, length |-> runs[1][2] + 1],
                             free >>
                          \o InUseEntries(chunk_arg, 1, runs[1][2])
                     ELSE << [t |-> "header", idnum |-> 0, length |-> 1], free >>
                          \o LaterSubsection(chunk_arg, runs[1])
        IN /\ Len(SelectSeq(toks, IsFree)) = 1
           /\ toks[3] = free
           /\ toks = << [t |-> "xref"] >> \o first
                        \o Concat([ j \in 1 .. (Len(runs) - 1) |->
                                      LaterSubsection(chunk_arg, runs[j + 1]) ])

\* C12 witness: the legacy encoder wrote the merged header (0, 3) for a map
\* whose lowest id is 1 and that has a later run, and would write the
\* separate (0, 1) subsection for the same map without its id 1
C12_Witness ==
    /\ chunk_res # None
    /\ chunk_res[1].encoder = "table"
    /\ chunk_res[1].out.status = "ok"
    /\ IdsOf(chunk_arg) = {1, 2, 5, 6, 9}
    /\ LegacyHeaders(chunk_res[1].out.stream) = << <<0, 3>>, <<5, 2>>, <<9, 1>> >>
    /\ LegacyHeaders(write_xref_table(<< >>, OffsetMap({2, 5, 6, 9}, 0)).stream)
         = << <<0, 1>>, <<2, 1>>, <<5, 2>>, <<9, 1>> >>

\* the record of the cross-reference stream that stands for the id i
ExpectedRecord(pd, i) ==
    IF i = 0
    THEN << 0, 0, 65535 >>
    ELSE LET key == CHOOSE key \in DOMAIN pd : key[2] = i IN
         IF IsTuple(pd[key])
         THEN << 2, pd[key].obj_stream_num, pd[key].ix >>
         ELSE << 1, pd[key].offset, key[1] >>

RECURSIVE SumLengths(_)
SumLengths(pairs) ==
    IF pairs = << >> THEN 0 ELSE Head(pairs)[2] + SumLengths(Tail(pairs))

\* C13: the /Index array of the cross-reference stream is (0, 1) followed by
\* the (first_id, length) pair of every run in ascending id order; the payload
\* holds one three-field record per listed id, in the same order: type 0 with
\* generation 65535 for id 0, type 2 with (container id, index in container)
\* for a member of an object stream, type 1 with (byte offset, generation)
\* otherwise; the records are as many as the lengths of /Index add up to, and
\* the declared field widths are (1, 8, 2).
C13_CompactIndex ==
    LET pairs == IndexPairs(CompactOut)
        ids == ListedIds(pairs)
        records == CompactOut.data
    IN /\ pairs = << <<0, 1>> >> \o RunsOf(IdsOf(chunk_arg))
       /\ Len(records) = SumLengths(pairs)
       /\ Len(records) = Len(ids)
       /\ \A j \in DOMAIN records :
            /\ Len(records[j]) = 3
            /\ records[j] = ExpectedRecord(chunk_arg, ids[j])
       /\ DictGet(CompactOut.d, "W") =
            ArrayObject(<< NumberObject(1), NumberObject(8), NumberObject(2) >>)

\* C13 witness: the compact encoder ran on a map with members of an object
\* stream, a byte offset of generation 1 and three runs, and wrote records of
\* all three types
C13_Witness ==
    /\ chunk_res # None
    /\ chunk_res[1].encoder = "stream"
    /\ IdsOf(chunk_arg) = {1, 2, 3, 7, 8, 10}
    /\ <<1, 7>> \in DOMAIN chunk_arg
    /\ IsTuple(chunk_arg[<<0, 2>>])
    /\ IndexPairs(chunk_res[1].out) = << <<0, 1>>, <<1, 3>>, <<7, 2>>, <<10, 1>> >>
    /\ { chunk_res[1].out.data[j][1] : j \in DOMAIN chunk_res[1].out.data } = {0, 1, 2}
    /\ chunk_res[1].out.data[5] = << 1, 107, 1 >>

\* ------------------------------------------------------------------ the trailer

\* the greatest element of a non-empty set of integers
Max(S) == CHOOSE m \in S : \A o \in S : o <= m

\* the ids a pass of write has written: those of its position map
WrittenIds(w) == { key[2] : key \in DOMAIN w.object_positions }

\* C14: after write(), /Size in the trailer is one more than the highest id
\* that was allocated and populated (written) by the pass, the id of the
\* cross-reference stream included when stream_xrefs is set; in both modes,
\* and also when the highest allocated id is a pending placeholder.
C14_SizeIsHighestPopulatedPlusOne ==
    LET w == write(Writer) IN
    w.status = "ok" =>
        DictGet(w.trailer, "Size").v = 1 + Max(WrittenIds(w))

\* C14, the state the claim is about: the classical table is written while
\* the highest allocated id is a pending placeholder, and /Size counts it
C14_Witness ==
    /\ ~ stream_xrefs
    /\ lastobj_id \in allocated_placeholders
    /\ LET w == write(Writer) IN
        /\ w.status = "ok"
        /\ DictGet(w.trailer, "Size").v = lastobj_id + 1
        /\ Max(WrittenIds(w)) < lastobj_id

\* ------------------------------------------------------------------ import_object: the copied graph

\* the references that occur in a value, at any depth
RECURSIVE RefsIn(_)
RefsIn(v0) ==
    LET v == IF v0.kind = "proxy" THEN v0.decrypted ELSE v0 IN
    IF v.kind = "ref" THEN {v}
    ELSE IF v.kind \in {"dict", "stream"}
    THEN UNION { RefsIn(v.d[j][2]) : j \in DOMAIN v.d }
    ELSE IF v.kind = "array"
    THEN UNION { RefsIn(v.a[j]) : j \in DOMAIN v.a }
    ELSE {}

\* the references reachable from those of todo: what a reference resolves to
\* is searched for further references
RECURSIVE Reach(_, _, _)
Reach(st, todo, seen) ==
    IF todo = {}
    THEN seen
    ELSE LET r == CHOOSE r \in todo : TRUE
             refd == dereference(st, r)
             found == IF refd.status = "ok" THEN RefsIn(refd.res) ELSE {}
         IN Reach(st, (todo \cup found) \ (seen \cup {r}), seen \cup {r})

Reachable(st, v) == Reach(st, RefsIn(v), {})

\* every reference reachable from v resolves
Resolvable(st, v) == \A r \in Reachable(st, v) : dereference(st, r).status = "ok"

\* the value v with every reference replaced by what the map m assigns to it
RECURSIVE Subst(_, _)
Subst(v0, m) ==
    LET v == IF v0.kind = "proxy" THEN v0.decrypted ELSE v0 IN
    IF v.kind = "ref" THEN m[Reference(v)]
    ELSE IF v.kind = "dict"
    THEN DictionaryObject([j \in DOMAIN v.d |-> << v.d[j][1], Subst(v.d[j][2], m) >>])
    ELSE IF v.kind = "stream"
    THEN StreamObject([j \in DOMAIN v.d |-> << v.d[j][1], Subst(v.d[j][2], m) >>],
                      v.data)
    ELSE IF v.kind = "array"
    THEN ArrayObject([j \in DOMAIN v.a |-> Subst(v.a[j], m)])
    ELSE v

\* the ids under which the writer stores an object
StoredIds(st) == { key[2] : key \in DOMAIN st.objects } \cup DOMAIN st.objs_in_streams

\* the container arguments import_object accepts: none, or a registered one
RegisteredStreamArgs == {None} \cup { Some(h) : h \in Range(object_streams) }

\* import_object among the calls that give it a writer to import into:
\* object streams, pending placeholders and a page tree with pages
NextImport ==
    \/ NewObjectStream
    \/ PrepareObjectStream
    \/ AllocatePlaceholder
    \/ InsertPage
    \/ ImportObject

SpecImport == Init /\ [][NextImport]_vars

\* C15: within one import_object call every distinct reference reachable from
\* the imported value gets exactly one new identity in the writer: the
\* reference map of the call has one entry per reachable reference, different
\* references get different new ids, every occurrence in the copy is replaced
\* by the reference the map assigns, and the call adds as many objects as
\* there are distinct reachable references (and leaves none pending).
C15_OneIdentityPerReference ==
    \A obj \in ImportInputs, s \in AllStreamArgs :
        LET r == import_object(Writer, obj, s)
            reach == Reachable(Writer, obj)
        IN r.status = "ok" =>
            /\ DOMAIN r.reference_map = { Reference(x) : x \in reach }
            /\ \A a, b \in DOMAIN r.reference_map :
                a # b => r.reference_map[a] # r.reference_map[b]
            /\ \A a \in DOMAIN r.reference_map :
                /\ r.reference_map[a] = OwnRef(r.reference_map[a].idnum)
                /\ r.reference_map[a].idnum > lastobj_id
                /\ r.reference_map[a].idnum \in StoredIds(r.st) \ StoredIds(Writer)
            /\ r.res = Subst(obj, r.reference_map)
            /\ Cardinality(StoredIds(r.st) \ StoredIds(Writer)) = Cardinality(reach)
            /\ StoredIds(Writer) \subseteq StoredIds(r.st)
            /\ r.st.lastobj_id = lastobj_id + Cardinality(reach)
            /\ r.st.allocated_placeholders = allocated_placeholders

\* C15 witness: a dictionary that names one object twice was imported, both
\* occurrences are the same new reference, and importing the array that names
\* one foreign object twice adds one object
C15_Witness ==
    /\ \E i \in StoredIds(Writer) :
        LET v == get_object(Writer, OwnRef(i)).res IN
        /\ v.kind = "dict"
        /\ DictHas(v.d, "Next") /\ DictHas(v.d, "Again")
        /\ DictGet(v.d, "Next") = DictGet(v.d, "Again")
        /\ DictGet(v.d, "Next").pdf = "self"
        /\ DictGet(v.d, "Next") # OwnRef(i)
    /\ LET r == import_object(Writer, ArrayObject(<< ForeignRef(2), ForeignRef(2) >>), None)
       IN /\ r.status = "ok"
          /\ r.res.a[1] = r.res.a[2]
          /\ Cardinality(Reachable(Writer, ArrayObject(<< ForeignRef(2), ForeignRef(2) >>))) = 2

\* C16: import_object returns on a source graph with cycles (a value that
\* refers to itself, objects that refer to each other) whenever every
\* reachable reference resolves, and the copy has the topology of the source:
\* for every reachable source object A, what the new reference of A resolves
\* to in the writer is A with every reference to a source object B replaced,
\* at the same position, by the new reference of B; every object the call
\* adds is the copy of exactly one source object.
C16_SameTopology ==
    \A obj \in ImportInputs, s \in RegisteredStreamArgs :
        LET r == import_object(Writer, obj, s)
            reach == Reachable(Writer, obj)
        IN /\ Resolvable(Writer, obj) => r.status = "ok"
           /\ r.status = "ok" =>
                /\ \A A \in reach :
                    get_object(r.st, r.reference_map[Reference(A)])
                      = [status |-> "ok",
                         res |-> Subst(dereference(Writer, A).res, r.reference_map)]
                /\ \A i \in StoredIds(r.st) \ StoredIds(Writer) :
                    Cardinality({ A \in reach : r.reference_map[Reference(A)] = OwnRef(i) }) = 1

\* C16 witness: the writer holds the copy of the dictionary that refers to
\* itself and of the stream that refers back to it, each reference resolving
\* to the copy, and importing the self-referring dictionary again returns
C16_Witness ==
    /\ \E i, k \in StoredIds(Writer) :
        LET v == get_object(Writer, OwnRef(i)).res
            u == get_object(Writer, OwnRef(k)).res
        IN /\ i # k
           /\ v.kind = "dict" /\ DictHas(v.d, "Self") /\ DictHas(v.d, "Next")
           /\ DictGet(v.d, "Self") = OwnRef(i)
           /\ DictGet(v.d, "Next") = OwnRef(k)
           /\ u.kind = "stream" /\ DictHas(u.d, "Back")
           /\ DictGet(u.d, "Back") = OwnRef(i)
    /\ import_object(Writer, ForeignRef(1), None).status = "ok"

\* ------------------------------------------------------------------ insert_page on page trees

\* the number of pages up to which pages are inserted
MaxPages == 6

\* nodes a caller builds a page tree of
PagesNode(parent, count, kids) ==
    DictionaryObject(<< <<"Type", NameObject("Pages")>>, <<"Parent", parent>>,
                        <<"Count", NumberObject(count)>>,
                        <<"Kids", ArrayObject(kids)>> >>)
PageLeaf(parent) ==
    DictionaryObject(<< <<"Type", NameObject("Page")>>, <<"Parent", parent>> >>)

\* A writer whose caller has built a page tree of three levels with
\* add_object: the root 3 has the kids 4 (a node) and 8 (a page), the node 4
\* the kids 5 (a node) and 7 (a page), the node 5 the page 6.
NestedTreeWriter ==
    [ PdfFileWriterInit(TRUE) EXCEPT
        !.objects =
            (<<0, 3>> :> DictionaryObject(<< <<"Type", NameObject("Pages")>>,
                                             <<"Count", NumberObject(3)>>,
                                             <<"Kids", ArrayObject(<< OwnRef(4), OwnRef(8) >>)>> >>))
            @@ (<<0, 4>> :> PagesNode(OwnRef(3), 2, << OwnRef(5), OwnRef(7) >>))
            @@ (<<0, 5>> :> PagesNode(OwnRef(4), 1, << OwnRef(6) >>))
            @@ (<<0, 6>> :> PageLeaf(OwnRef(5)))
            @@ (<<0, 7>> :> PageLeaf(OwnRef(4)))
            @@ (<<0, 8>> :> PageLeaf(OwnRef(3)))
            @@ @,
        !.lastobj_id = 8,
        !.returned = << 1, 2, 3, 4, 5, 6, 7, 8 >> ]

\* A writer whose caller has replaced the page tree root by one without /Kids
NoKidsWriter ==
    [ PdfFileWriterInit(TRUE) EXCEPT
        !.objects[<<0, 3>>] = DictionaryObject(<< <<"Type", NameObject("Pages")>>,
                                                  <<"Count", NumberObject(0)>> >>) ]

InitPages ==
    /\ \E st \in { PdfFileWriterInit(TRUE), NestedTreeWriter, NoKidsWriter } :
        /\ objects = st.objects
        /\ object_streams = st.object_streams
        /\ objs_in_streams = st.objs_in_streams
        /\ lastobj_id = st.lastobj_id
        /\ allocated_placeholders = st.allocated_placeholders
        /\ stream_xrefs = st.stream_xrefs
        /\ heap = st.heap
        /\ returned = st.returned
        /\ security_handler = st.security_handler
        /\ encrypt = st.encrypt
        /\ output_version = st.output_version
    /\ chunk_arg = << >>
    /\ chunk_res = None
    /\ glyphs = << >>
    /\ extracted = FALSE

InsertPageInTree ==
    \E new_page \in PageInputs, after \in AfterArgs :
        /\ PageCount < MaxPages
        /\ Install(insert_page(Writer, new_page, after).st)
        /\ UNCHANGED << chunk_arg, chunk_res, glyphs, extracted >>

NextPages == InsertPageInTree

SpecPages == InitPages /\ [][NextPages]_vars

\* the pages below a node in document order, a page being below itself
RECURSIVE PagesBelow(_, _)
PagesBelow(st, ref) ==
    LET node == get_object(st, ref).res IN
    IF IsPagesNode(node)
    THEN IF DictHas(node.d, "Kids")
         THEN LET kids == DictGet(node.d, "Kids").a
              IN Concat([ j \in DOMAIN kids |-> PagesBelow(st, kids[j]) ])
         ELSE << >>
    ELSE << ref >>

\* the page tree root and the pages of the document in document order
PagesRootRef(st) == DictGet(root(st).d, "Pages")
DocumentOrder(st) == PagesBelow(st, PagesRootRef(st))

\* Count of every page tree node is the number of pages below it
CountsConsistent(st) ==
    \A key \in DOMAIN st.objects :
        IsPagesNode(st.objects[key]) =>
            DictGet(st.objects[key].d, "Count").v
                = Len(PagesBelow(st, IndirectObject(key[2], key[1], "self")))

\* the page objects in the store
PageObjects(st) ==
    { key \in DOMAIN st.objects :
        /\ st.objects[key].kind = "dict"
        /\ DictHas(st.objects[key].d, "Type")
        /\ DictGet(st.objects[key].d, "Type") = NameObject("Page") }

\* C17: from a page tree with consistent counts, after any sequence of
\* insert_page calls every node's Count is the number of pages reachable from
\* it through Kids; every successful insert_page adds one to the root's
\* Count, which is the number of pages in the store (the initial ones and
\* one per successful call).
C17_CountsConsistent ==
    /\ CountsConsistent(Writer)
    /\ PageCount = Cardinality(PageObjects(Writer))
    /\ PageCount = Len(DocumentOrder(Writer))
    /\ \A new_page \in PageInputs, after \in AfterArgs :
        LET r == insert_page(Writer, new_page, after) IN
        r.status = "ok" =>
            /\ CountsConsistent(r.st)
            /\ DictGet(get_object(r.st, PagesRootRef(Writer)).res.d, "Count").v
                 = PageCount + 1

\* C17 witness: in the tree of three levels a page was inserted into the
\* innermost node and one into the root, and the counts are 5, 3 and 2
C17_Witness ==
    /\ <<0, 5>> \in DOMAIN objects
    /\ IsPagesNode(objects[<<0, 5>>])
    /\ DictGet(objects[<<0, 5>>].d, "Count").v = 2
    /\ DictGet(objects[<<0, 4>>].d, "Count").v = 3
    /\ DictGet(objects[<<0, 3>>].d, "Count").v = 5
    /\ Len(DictGet(objects[<<0, 3>>].d, "Kids").a) = 3

\* the sequence s with x put in as its element number pos
PutAt(s, pos, x) ==
    [ j \in 1 .. (Len(s) + 1) |->
        IF j < pos THEN s[j] ELSE IF j = pos THEN x ELSE s[j - 1] ]

\* C18: on a tree with n pages insert_page(new_page, after=k), 0 <= k < n,
\* gives n + 1 pages in document order, the new page at position k + 1
\* (counting from 0) and the n others in their old order; without after the
\* new page is the last page; on an empty tree, or with after = -1, it is
\* the first page and a direct kid of the root.
C18_InsertPosition ==
    LET order == DocumentOrder(Writer)
        n == Len(order)
        root_pages == get_object(Writer, PagesRootRef(Writer)).res
    IN DictHas(root_pages.d, "Kids") =>
        /\ \A k \in 0 .. (n - 1) :
            LET r == insert_page(Writer, NewPage, Some(k)) IN
            /\ r.status = "ok"
            /\ r.res \notin Range(order)
            /\ DocumentOrder(r.st) = PutAt(order, k + 2, r.res)
        /\ LET r == insert_page(Writer, NewPage, None) IN
            /\ r.status = "ok"
            /\ DocumentOrder(r.st) = Append(order, r.res)
            /\ n = 0 =>
                DictGet(get_object(r.st, PagesRootRef(Writer)).res.d, "Kids").a
                    = << r.res >>
        /\ LET r == insert_page(Writer, NewPage, Some(-1)) IN
            /\ r.status = "ok"
            /\ DocumentOrder(r.st) = << r.res >> \o order
            /\ DictGet(get_object(r.st, PagesRootRef(Writer)).res.d, "Kids").a[1]
                 = r.res

\* C18 witness: the tree of three levels has five pages, the page 9 was
\* inserted after the first page and the page 10 in front of all
C18_Witness ==
    /\ DocumentOrder(Writer)
         = << OwnRef(10), OwnRef(6), OwnRef(9), OwnRef(7), OwnRef(8) >>
    /\ insert_page(Writer, NewPage, Some(2)).status = "ok"

\* the page dictionaries in the store, as a caller holds them after insert_page
StoredPages == { objects[key] : key \in PageObjects(Writer) }

\* C19: insert_page raises ValueError for a new_page of another type, for one
\* with a /Parent (so for every page that was inserted before) and for a
\* container without /Kids; whenever insert_page raises, nothing has changed:
\* no Count, no Kids, no object added, the cursor where it was.
C19_RejectedBeforeMutation ==
    /\ \A after \in AfterArgs :
        /\ insert_page(Writer, NotAPage, after) = [st |-> Writer, status |-> "ValueError"]
        /\ insert_page(Writer, AdoptedPage, after) = [st |-> Writer, status |-> "ValueError"]
        /\ \A page \in StoredPages :
            insert_page(Writer, page, after) = [st |-> Writer, status |-> "ValueError"]
    /\ ~ DictHas(get_object(Writer, PagesRootRef(Writer)).res.d, "Kids") =>
        \A after \in {None, Some(-1)} :
            insert_page(Writer, NewPage, after) = [st |-> Writer, status |-> "ValueError"]
    /\ \A new_page \in PageInputs \cup StoredPages, after \in AfterArgs :
        LET r == insert_page(Writer, new_page, after) IN
        r.status # "ok" => r.st = Writer

\* C19 witness, rejected pages: pages were inserted into the tree of three
\* levels, and an inserted page, a page with a parent and a font are rejected
C19_Witness ==
    /\ Cardinality(PageObjects(Writer)) = 5
    /\ <<0, 9>> \in PageObjects(Writer)
    /\ insert_page(Writer, objects[<<0, 9>>], Some(0)).status = "ValueError"
    /\ insert_page(Writer, AdoptedPage, None).status = "ValueError"
    /\ insert_page(Writer, NotAPage, Some(-1)).status = "ValueError"

\* ------------------------------------------------------------------ write after write

\* the object stream objects (/Type /ObjStm) in the store
ObjStmObjects(st) ==
    { key \in DOMAIN st.objects :
        /\ st.objects[key].kind = "stream"
        /\ DictHas(st.objects[key].d, "Type")
        /\ DictGet(st.objects[key].d, "Type") = NameObject("ObjStm") }

\* C20: after write() has returned, the object streams of that pass are no
\* longer registered with the writer, and a second write() neither writes
\* them again nor adds an object to the store for them.
C20_BatchesDiscardedAfterWrite ==
    LET w == write(Writer) IN
    w.status = "ok" =>
        /\ w.st.object_streams = << >>
        /\ LET w2 == write(w.st) IN
            /\ w2.st.objects = w.st.objects
            /\ w2.st.lastobj_id = w.st.lastobj_id

\* C20, the state the claim is about: a pass has written an object stream
\* with a member, the stream is still registered, and the next write() adds
\* one more object stream object to the store for it
C20_Witness ==
    /\ \E key \in ObjStmObjects(Writer) : DictGet(objects[key].d, "N").v >= 1
    /\ object_streams # << >>
    /\ LET w2 == write(Writer) IN
        /\ w2.status = "ok"
        /\ w2.st.lastobj_id > lastobj_id
        /\ Cardinality(ObjStmObjects(w2.st)) > Cardinality(ObjStmObjects(Writer))

\* ------------------------------------------------------------------ a writer that may be encrypted

\* passwords a caller hands to encrypt
Passwords == {"pw1", "pw2"}

\* writer.encrypt(owner_pass, user_pass)
Encrypt ==
    \E owner_pass \in Passwords, user_pass \in {None} \cup { Some(p) : p \in Passwords } :
        /\ lastobj_id < MaxId
        /\ Install(encrypt_document(Writer, owner_pass, user_pass))
        /\ UNCHANGED << chunk_arg, chunk_res, glyphs, extracted >>

NextSecure ==
    \/ Encrypt
    \/ AllocatePlaceholder
    \/ AddObject
    \/ PrepareObjectStream
    \/ Write

SpecSecure == Init /\ [][NextSecure]_vars

\* ------------------------------------------------------------------ the commit and the index stream

\* the positions of the "obj" tokens of an output
ObjTokens(out) == { i \in DOMAIN out : out[i].t = "obj" }

\* the id the cross-reference stream was written under: that of the last
\* "N G obj" line of an output written with stream_xrefs
IndexStreamId(out) == out[Max(ObjTokens(out))].idnum

\* C21: with stream_xrefs, write() reserves a further id for the
\* cross-reference stream: it is greater than every id allocated before, and
\* it is taken from the allocation cursor, so no allocate_placeholder or
\* add_object call after the write returns that id.
C21_IndexStreamIdConsumed ==
    LET w == write(Writer) IN
    (stream_xrefs /\ w.status = "ok") =>
        LET xrefs_id == IndexStreamId(w.stream) IN
        /\ \A i \in 1 .. Len(w.st.returned) : w.st.returned[i] < xrefs_id
        /\ \A key \in DOMAIN w.st.objects : key[2] < xrefs_id
        /\ allocate_placeholder(w.st).res.idnum # xrefs_id
        /\ \A obj \in InputValues :
            add_object(w.st, obj, None, None).res.idnum # xrefs_id

\* C21, the state the claim is about: a write with stream_xrefs has put the
\* cross-reference stream under an id above all others, and the next
\* allocation after it hands out that same id
C21_Witness ==
    LET w == write(Writer) IN
    /\ stream_xrefs
    /\ w.status = "ok"
    /\ IndexStreamId(w.stream) > lastobj_id
    /\ IndexStreamId(w.stream) = w.st.lastobj_id + 1
    /\ allocate_placeholder(w.st).res.idnum = IndexStreamId(w.stream)

\* the writer, the output and the position map when _write_objects returns
BodyDone(st) == write_objects(st, write_file_header(st, << >>), << >>)

\* the decoded payload of a stream object
DecodedData(obj) == IF DictHas(obj.d, "Filter") THEN obj.data[2] ELSE obj.data

\* the keys of the members of the registered object streams
MemberKeys(st) ==
    UNION { { <<0, st.heap[h].obj_refs[j][1]>> : j \in DOMAIN st.heap[h].obj_refs } :
            h \in Range(st.object_streams) }

\* C22: in a write, every registered object stream is added to the store as
\* a normal object before any object of the store is serialized (so its
\* container object is serialized with the others), and when _write_objects
\* returns the position map has exactly one entry per key of self.objects (a
\* byte offset, that of its "N G obj" line) and one per member of every
\* registered object stream (the pair of the container's id and the member's
\* ordinal in insertion order, the order of the payload's header), and every
\* container id of such a pair has a byte offset entry itself.
C22_PositionMapAfterBody ==
    LET w == BodyDone(Writer)
        pos == w.object_position_dict
    IN
    /\ DOMAIN pos = DOMAIN w.st.objects \cup MemberKeys(Writer)
    /\ DOMAIN objects \subseteq DOMAIN w.st.objects
    /\ \A key \in DOMAIN w.st.objects :
        /\ ~IsTuple(pos[key])
        /\ w.stream[pos[key].offset + 1] =
               [t |-> "obj", idnum |-> key[2], generation |-> key[1]]
        /\ w.stream[pos[key].offset + 2].obj = w.st.objects[key]
    /\ \A k \in DOMAIN object_streams :
        LET refs == heap[object_streams[k]].obj_refs
            cid == lastobj_id + k
        IN
        /\ <<0, cid>> \in DOMAIN w.st.objects \ DOMAIN objects
        /\ DictGet(w.st.objects[<<0, cid>>].d, "Type") = NameObject("ObjStm")
        /\ Len(DecodedData(w.st.objects[<<0, cid>>]).header) = Len(refs)
        /\ \A j \in DOMAIN refs :
            /\ pos[<<0, refs[j][1]>>] = InStream(cid, j - 1)
            /\ DecodedData(w.st.objects[<<0, cid>>]).header[j][1] = refs[j][1]
            /\ DecodedData(w.st.objects[<<0, cid>>]).body[j] = refs[j][2]
        /\ ~IsTuple(pos[<<0, cid>>])
    /\ \A key \in DOMAIN pos :
        IsTuple(pos[key]) =>
            /\ <<0, pos[key].obj_stream_num>> \in DOMAIN pos
            /\ ~IsTuple(pos[<<0, pos[key].obj_stream_num>>])

\* C22, the state the claim is about: two object streams are registered, one
\* of them with two members, next to objects stored directly, and
\* _write_objects gives the second member the pair (container id, 1)
C22_Witness ==
    LET w == BodyDone(Writer) IN
    /\ Len(object_streams) = 2
    /\ \E h \in Range(object_streams) : Len(heap[h].obj_refs) >= 2
    /\ \E key \in DOMAIN w.object_position_dict :
        /\ IsTuple(w.object_position_dict[key])
        /\ w.object_position_dict[key].ix = 1
        /\ w.object_position_dict[key].obj_stream_num > lastobj_id

\* C23: with stream_xrefs, when the cross-reference stream is encoded the
\* position map already has an entry under the stream's own key whose value
\* is the byte offset at which the stream object starts; that key differs
\* from every other key of the map, and the same offset is the one written
\* after startxref.
C23_IndexStreamOwnEntry ==
    LET w == write(Writer)
        b == BodyDone(Writer)
    IN
    (stream_xrefs /\ w.status = "ok") =>
        LET k == Max(ObjTokens(w.stream))
            xrefs_id == w.stream[k].idnum
            xref_stream == w.stream[k + 1].obj
            pairs == IndexPairs(xref_stream)
            last == pairs[Len(pairs)]
        IN
        /\ \A key \in DOMAIN b.object_position_dict : key[2] # xrefs_id
        /\ DOMAIN w.object_positions =
               DOMAIN b.object_position_dict \cup { <<0, xrefs_id>> }
        /\ w.object_positions[<<0, xrefs_id>>] = Offset(k - 1)
        /\ \A key \in DOMAIN b.object_position_dict :
               w.object_positions[key] = b.object_position_dict[key]
        /\ last[1] + last[2] - 1 = xrefs_id
        /\ xref_stream.data[Len(xref_stream.data)] = << 1, k - 1, 0 >>
        /\ Len(xref_stream.data) = SumLengths(pairs)
        /\ w.stream[Len(w.stream) - 1] =
               [t |-> "startxref", xref_location |-> k - 1]

\* C23, the state the claim is about: a writer with stream_xrefs, an object
\* stream with a member and more objects than the initial three; write puts
\* the cross-reference stream last and lists its own offset in it
C23_Witness ==
    LET w == write(Writer) IN
    /\ stream_xrefs
    /\ w.status = "ok"
    /\ lastobj_id > 3
    /\ \E h \in Range(object_streams) : heap[h].obj_refs # << >>
    /\ w.object_positions[<<0, IndexStreamId(w.stream)>>] =
           Offset(w.xref_location)
    /\ w.xref_location > 0

\* the "body" tokens of the directly stored objects in an output
StoredBodies(out) ==
    { i \in DOMAIN out : out[i].t = "body" /\ out[i].container_ref # None }

\* C24: in _write_objects with a security handler attached, the handler is
\* handed to write_to_stream for every object of the store except the object
\* added for the handler's own encryption dictionary, which never gets it;
\* with no handler attached no object gets one.
C24_HandlerSkipsEncryptDict ==
    LET w == BodyDone(Writer) IN
    /\ { <<w.stream[i].container_ref[1][2], w.stream[i].container_ref[1][1]>> :
            i \in StoredBodies(w.stream) } = DOMAIN w.st.objects
    /\ security_handler # None =>
        /\ encrypt # None
        /\ <<0, encrypt[1].idnum>> \in DOMAIN objects
        /\ objects[<<0, encrypt[1].idnum>>] =
               SecurityHandler_as_pdf_object(security_handler[1])
    /\ \A i \in StoredBodies(w.stream) :
        LET idnum == w.stream[i].container_ref[1][1] IN
        /\ security_handler = None => w.stream[i].handler = None
        /\ (security_handler # None /\ idnum = encrypt[1].idnum) =>
               w.stream[i].handler = None
        /\ (security_handler # None /\ idnum # encrypt[1].idnum) =>
               w.stream[i].handler = security_handler

\* C24, the state the claim is about: encrypt was called, an object was added
\* after it and an object stream is registered; the write hands the handler
\* to the objects before and after the encryption dictionary and not to it
C24_Witness ==
    LET w == BodyDone(Writer) IN
    /\ security_handler # None
    /\ encrypt[1].idnum < lastobj_id
    /\ object_streams # << >>
    /\ \E i, j \in StoredBodies(w.stream) :
        /\ w.stream[i].container_ref[1][1] = encrypt[1].idnum
        /\ w.stream[i].handler = None
        /\ w.stream[j].handler = security_handler
        /\ w.stream[j].container_ref[1][1] > encrypt[1].idnum
    /\ \E i \in StoredBodies(w.stream) :
        /\ w.stream[i].container_ref[1][1] < encrypt[1].idnum
        /\ w.stream[i].handler = security_handler

\* ------------------------------------------------------------------ import_object: containers, placeholders, the reference map

\* the value a reference resolves to, read through the decrypting proxy
SourceValue(st, A) ==
    LET v == dereference(st, A).res IN
    IF v.kind = "proxy" THEN v.decrypted ELSE v

\* the ids of the members of an ObjectStream
MemberIds(stm) == { stm.obj_refs[j][1] : j \in DOMAIN stm.obj_refs }

\* C25: import_object(obj, obj_stream=b) with a registered object stream b
\* never fails because of what may be put in an object stream: for every
\* reference reached, the new object is in self.objects and not in b if the
\* imported value is a stream or a bare reference, and in b and in
\* self.objs_in_streams otherwise; an object stored directly does not change
\* where the others of the same import are stored.
C25_ContainerLegalityRedirect ==
    \A obj \in ImportInputs, h \in Range(object_streams) :
        LET r == import_object(Writer, obj, Some(h)) IN
        /\ r.status \in {"ok", "KeyError"}
        /\ r.status = "KeyError" => ~Resolvable(Writer, obj)
        /\ r.status = "ok" =>
            /\ \A A \in Reachable(Writer, obj) :
                LET id == r.reference_map[Reference(A)].idnum IN
                IF SourceValue(Writer, A).kind \in {"stream", "ref"}
                THEN /\ <<0, id>> \in DOMAIN r.st.objects
                     /\ id \notin DOMAIN r.st.objs_in_streams
                     /\ \A g \in DOMAIN r.st.heap : id \notin MemberIds(r.st.heap[g])
                ELSE /\ id \in MemberIds(r.st.heap[h])
                     /\ id \in DOMAIN r.st.objs_in_streams
                     /\ <<0, id>> \notin DOMAIN r.st.objects
                     /\ \A g \in DOMAIN r.st.heap \ {h} :
                            id \notin MemberIds(r.st.heap[g])
            /\ \A g \in DOMAIN heap \ {h} : r.st.heap[g] = heap[g]
            /\ r.st.object_streams = object_streams

\* C25, the state the claim is about: an import into a registered object
\* stream has put the copy of the dictionary in the stream and the copy of
\* the stream it refers to in self.objects; importing the bare reference to
\* that stream stores two objects directly and the dictionary in the stream
C25_Witness ==
    \E h \in Range(object_streams) :
        LET r == import_object(Writer, ForeignRef(1), Some(h))
            bare == import_object(Writer, ForeignRef(3), Some(h))
        IN
        /\ \E j \in DOMAIN heap[h].obj_refs :
            /\ heap[h].obj_refs[j][2].kind = "dict"
            /\ DictHas(heap[h].obj_refs[j][2].d, "Next")
            /\ <<0, DictGet(heap[h].obj_refs[j][2].d, "Next").idnum>> \in DOMAIN objects
            /\ objects[<<0, DictGet(heap[h].obj_refs[j][2].d, "Next").idnum>>].kind = "stream"
        /\ r.status = "ok"
        /\ Cardinality(MemberIds(r.st.heap[h]) \ MemberIds(heap[h])) = 1
        /\ Cardinality(DOMAIN r.st.objects \ DOMAIN objects) = 1
        /\ bare.status = "ok"
        /\ Cardinality(MemberIds(bare.st.heap[h]) \ MemberIds(heap[h])) = 1
        /\ Cardinality(DOMAIN bare.st.objects \ DOMAIN objects) = 2

\* C28: an import_object call that returns leaves the set of pending
\* placeholders as it was: every placeholder the import allocates is
\* populated when the call returns, and the placeholders pending before the
\* call are still pending and unpopulated.
C28_PendingSetUnchanged ==
    \A obj \in ImportInputs, s \in AllStreamArgs :
        LET r == import_object(Writer, obj, s) IN
        r.status = "ok" =>
            /\ r.st.allocated_placeholders = allocated_placeholders
            /\ \A key \in DOMAIN r.reference_map :
                /\ r.reference_map[key].idnum \notin r.st.allocated_placeholders
                /\ r.reference_map[key].idnum \in StoredIds(r.st)
            /\ \A i \in (lastobj_id + 1) .. r.st.lastobj_id :
                i \in StoredIds(r.st) /\ i \notin r.st.allocated_placeholders
            /\ \A i \in allocated_placeholders :
                /\ i \notin StoredIds(r.st)
                /\ get_object(r.st, OwnRef(i)) = get_object(Writer, OwnRef(i))

\* C28, the state the claim is about: a placeholder is pending, an import
\* has stored its copies above it, and one more import allocates and fills
\* two placeholders and leaves the pending one as it is
C28_Witness ==
    LET r == import_object(Writer, ForeignRef(1), None) IN
    /\ allocated_placeholders # {}
    /\ \E i \in StoredIds(Writer) : \E p \in allocated_placeholders : i > p
    /\ r.status = "ok"
    /\ r.st.lastobj_id = lastobj_id + 2
    /\ r.st.allocated_placeholders = allocated_placeholders

\* the references among the values a caller imports
ImportRefs == { obj \in ImportInputs : obj.kind = "ref" }

\* the values of a reference map
NewRefs(reference_map) == { reference_map[key] : key \in DOMAIN reference_map }

\* C29: the reference map lives for one import_object call: two calls on the
\* same reference return two different new references and store two copies
\* of what it reaches, and a reference of this writer is copied as well, not
\* returned as it is.
C29_RemapScopedPerCall ==
    \A obj \in ImportRefs, s \in RegisteredStreamArgs :
        LET r1 == import_object(Writer, obj, s)
            r2 == import_object(r1.st, obj, s)
            reach == Reachable(Writer, obj)
        IN r1.status = "ok" =>
            /\ r2.status = "ok"
            /\ r1.res # obj
            /\ r1.res.idnum \notin StoredIds(Writer)
            /\ r2.res # r1.res
            /\ r2.res # obj
            /\ NewRefs(r1.reference_map) \cap NewRefs(r2.reference_map) = {}
            /\ Cardinality(StoredIds(r1.st) \ StoredIds(Writer)) = Cardinality(reach)
            /\ Cardinality(StoredIds(r2.st) \ StoredIds(r1.st)) = Cardinality(reach)
            /\ \A A \in reach :
                /\ get_object(r2.st, r1.reference_map[Reference(A)])
                     = [status |-> "ok",
                        res |-> Subst(dereference(Writer, A).res, r1.reference_map)]
                /\ get_object(r2.st, r2.reference_map[Reference(A)])
                     = [status |-> "ok",
                        res |-> Subst(dereference(Writer, A).res, r2.reference_map)]

\* C29, the state the claim is about: the page tree root of this writer was
\* imported twice and the store holds two copies of it next to the original;
\* two more imports of one foreign reference return different references
C29_Witness ==
    LET r1 == import_object(Writer, ForeignRef(1), None)
        r2 == import_object(r1.st, ForeignRef(1), None)
    IN
    /\ \E i, j \in StoredIds(Writer) \ {3} :
        /\ i # j
        /\ get_object(Writer, OwnRef(i)) = get_object(Writer, OwnRef(3))
        /\ get_object(Writer, OwnRef(j)) = get_object(Writer, OwnRef(3))
    /\ r1.status = "ok" /\ r2.status = "ok"
    /\ r1.res # r2.res
    /\ r2.st.lastobj_id = lastobj_id + 4

\* ------------------------------------------------------------------ insert_page: Kids, Parent and the counts

\* the key of the object a reference of this writer names
KeyOf(ref) == << ref.generation, ref.idnum >>

\* the keys of a page tree node and of its ancestors, following /Parent
RECURSIVE AncestorChain(_, _)
AncestorChain(st, ref) ==
    LET node == get_object(st, ref).res IN
    {KeyOf(ref)} \cup
        (IF DictHas(node.d, "Parent")
         THEN AncestorChain(st, DictGet(node.d, "Parent"))
         ELSE {})

\* the page tree nodes in the store
PagesNodes(st) == { key \in DOMAIN st.objects : IsPagesNode(st.objects[key]) }

\* how often a reference occurs in the /Kids of a node
Occurrences(node, ref) ==
    IF DictHas(node.d, "Kids")
    THEN Cardinality({ j \in DOMAIN DictGet(node.d, "Kids").a :
                         DictGet(node.d, "Kids").a[j] = ref })
    ELSE 0

\* C26: after a successful insert_page the /Parent of the new page is the
\* reference of the node whose /Kids now holds the reference of the new page
\* exactly once (and no other node holds it); the counts the call has
\* incremented are those of that node and of its ancestors up to the root,
\* each by one, and the Count of every other node is as it was.
C26_KidsParentFrame ==
    \A after \in AfterArgs :
        LET r == insert_page(Writer, NewPage, after) IN
        r.status = "ok" =>
            LET page == get_object(r.st, r.res).res
                parent_ref == DictGet(page.d, "Parent")
                chain == AncestorChain(Writer, parent_ref)
            IN
            /\ KeyOf(parent_ref) \in PagesNodes(Writer)
            /\ PagesNodes(r.st) = PagesNodes(Writer)
            /\ \A key \in PagesNodes(r.st) :
                /\ Occurrences(r.st.objects[key], r.res)
                     = (IF key = KeyOf(parent_ref) THEN 1 ELSE 0)
                /\ DictGet(r.st.objects[key].d, "Count").v
                     = DictGet(objects[key].d, "Count").v
                         + (IF key \in chain THEN 1 ELSE 0)
            /\ KeyOf(PagesRootRef(Writer)) \in chain
            /\ \A key \in PageObjects(Writer) : r.st.objects[key] = objects[key]

\* C26, the state the claim is about: the tree of three levels has more
\* than three pages; a page inserted into the innermost node raises three
\* counts, and a page inserted into the node above it raises two and leaves
\* the innermost node, which is not on the chain, as it is
C26_Witness ==
    /\ PageCount > 3
    /\ \E after \in AfterArgs :
        LET r == insert_page(Writer, NewPage, after) IN
        /\ r.status = "ok"
        /\ Cardinality(AncestorChain(Writer, DictGet(get_object(r.st, r.res).res.d, "Parent"))) = 3
    /\ \E after \in AfterArgs :
        LET r == insert_page(Writer, NewPage, after)
            chain == AncestorChain(Writer, DictGet(get_object(r.st, r.res).res.d, "Parent"))
        IN
        /\ r.status = "ok"
        /\ Cardinality(chain) = 2
        /\ \E key \in PagesNodes(Writer) \ chain :
            DictGet(r.st.objects[key].d, "Count").v >= 1

\* ------------------------------------------------------------------ register_annotation

\* BasePdfFileWriter.register_annotation(page_ref, annot_ref). mark_update
\* does nothing in this class and is there for the writers that override it:
\* marked is the sequence of the arguments it was called with. A KeyError of
\* annots_ref.get_object() is raised inside the try block and caught with
\* that of raw_get.
register_annotation(st, page_ref, annot_ref) ==
    LET pg == get_object(st, page_ref) IN
    IF pg.status # "ok"
    THEN [st |-> st, status |-> pg.status, marked |-> << >>]
    ELSE
    LET page_obj == pg.res
        has == DictHas(page_obj.d, "Annots")
        annots_ref == DictGet(page_obj.d, "Annots")
        indirect == has /\ annots_ref.kind = "ref"
        resolved == get_object(st, annots_ref)
        created == [page_obj EXCEPT
                       !.d = DictSet(@, "Annots", ArrayObject(<< annot_ref >>))]
    IN
    IF indirect /\ resolved.status = "ValueError"
    THEN [st |-> st, status |-> "ValueError", marked |-> << >>]
    ELSE IF indirect /\ resolved.status = "ok"
    THEN IF resolved.res.kind # "array"
         THEN [st |-> st, status |-> "AttributeError", marked |-> << annot_ref >>]
         ELSE [st |-> mutate(st, annots_ref,
                             ArrayObject(Append(resolved.res.a, annot_ref))),
               status |-> "ok", marked |-> << annot_ref >>]
    ELSE IF has /\ ~indirect
    THEN [st |-> mutate(st, page_ref,
                        [page_obj EXCEPT
                            !.d = DictSet(@, "Annots",
                                          ArrayObject(Append(annots_ref.a, annot_ref)))]),
          status |-> "ok", marked |-> << page_ref >>]
    ELSE [st |-> mutate(st, page_ref, created),
          status |-> "ok", marked |-> << page_ref >>]

\* the most annotations the pages hold together
MaxAnnots == 4

\* an annotation, and a page of the tree whose /Annots is the given value
Annotation(name) ==
    DictionaryObject(<< <<"Type", NameObject("Annot")>>, <<"NM", StringObject(name)>> >>)
PageWithAnnots(annots, parent) ==
    DictionaryObject(<< <<"Type", NameObject("Page")>>, <<"Annots", annots>>,
                        <<"Parent", parent>> >>)

\* A writer whose caller has added an empty array (4), inserted a page
\* without /Annots (5), a page with an empty /Annots array of its own (6) and
\* a page whose /Annots is the reference to the array 4 (7), and added two
\* annotations (8, 9).
AnnotWriter(sx) ==
    [ PdfFileWriterInit(sx) EXCEPT
        !.objects =
            (<<0, 3>> :> DictionaryObject(<< <<"Type", NameObject("Pages")>>,
                                             <<"Count", NumberObject(3)>>,
                                             <<"Kids", ArrayObject(<< OwnRef(5), OwnRef(6),
                                                                      OwnRef(7) >>)>> >>))
            @@ (<<0, 4>> :> ArrayObject(<< >>))
            @@ (<<0, 5>> :> PageLeaf(OwnRef(3)))
            @@ (<<0, 6>> :> PageWithAnnots(ArrayObject(<< >>), OwnRef(3)))
            @@ (<<0, 7>> :> PageWithAnnots(OwnRef(4), OwnRef(3)))
            @@ (<<0, 8>> :> Annotation("a"))
            @@ (<<0, 9>> :> Annotation("b"))
            @@ @,
        !.lastobj_id = 9,
        !.returned = << 1, 2, 3, 4, 5, 6, 7, 8, 9 >> ]

\* the pages and the annotations of that writer
AnnotPages == { OwnRef(5), OwnRef(6), OwnRef(7) }
AnnotRefs == { OwnRef(8), OwnRef(9) }

\* the /Annots of a page: the array, resolved if it is a reference; empty if
\* the page has none
AnnotsOf(st, page_ref) ==
    LET page_obj == get_object(st, page_ref).res IN
    IF ~ DictHas(page_obj.d, "Annots")
    THEN << >>
    ELSE IF DictGet(page_obj.d, "Annots").kind = "ref"
    THEN get_object(st, DictGet(page_obj.d, "Annots")).res.a
    ELSE DictGet(page_obj.d, "Annots").a

\* the number of annotations registered so far
Registered(st) ==
    Len(AnnotsOf(st, OwnRef(5))) + Len(AnnotsOf(st, OwnRef(6)))
        + Len(AnnotsOf(st, OwnRef(7)))

InitAnnots ==
    \E sx \in BOOLEAN :
        LET st == AnnotWriter(sx) IN
        /\ objects = st.objects
        /\ object_streams = st.object_streams
        /\ objs_in_streams = st.objs_in_streams
        /\ lastobj_id = st.lastobj_id
        /\ allocated_placeholders = st.allocated_placeholders
        /\ stream_xrefs = st.stream_xrefs
        /\ heap = st.heap
        /\ returned = st.returned
        /\ security_handler = st.security_handler
        /\ encrypt = st.encrypt
        /\ output_version = st.output_version
        /\ chunk_arg = << >>
        /\ chunk_res = None
        /\ glyphs = << >>
        /\ extracted = FALSE

RegisterAnnotation ==
    \E page_ref \in AnnotPages, annot_ref \in AnnotRefs :
        /\ Registered(Writer) < MaxAnnots
        /\ Install(register_annotation(Writer, page_ref, annot_ref).st)
        /\ UNCHANGED << chunk_arg, chunk_res, glyphs, extracted >>

NextAnnots == RegisterAnnotation

SpecAnnots == InitAnnots /\ [][NextAnnots]_vars

\* C27: register_annotation(page_ref, annot_ref) appends annot_ref as the
\* last element of the page's annotation list, creating the list on the page
\* if there is none, and calls mark_update exactly once: with the reference
\* of the list, and not with that of the page, when the list is an indirect
\* object; with page_ref when the list is a direct value of the page or had
\* to be created.
C27_MarkUpdateOnListContainer ==
    \A page_ref \in AnnotPages, annot_ref \in AnnotRefs :
        LET r == register_annotation(Writer, page_ref, annot_ref)
            page_obj == get_object(Writer, page_ref).res
        IN
        /\ r.status = "ok"
        /\ AnnotsOf(r.st, page_ref) = Append(AnnotsOf(Writer, page_ref), annot_ref)
        /\ DictHas(get_object(r.st, page_ref).res.d, "Annots")
        /\ Len(r.marked) = 1
        /\ IF DictHas(page_obj.d, "Annots") /\ DictGet(page_obj.d, "Annots").kind = "ref"
           THEN r.marked = << DictGet(page_obj.d, "Annots") >>
           ELSE r.marked = << page_ref >>

\* C27, the state the claim is about: the page whose list is an indirect
\* object has an annotation registered, and registering another one appends
\* it to that list and calls mark_update with the reference of the
\* annotation, which is neither the list nor the page
C27_Witness ==
    LET r == register_annotation(Writer, OwnRef(7), OwnRef(9)) IN
    /\ DictGet(objects[<<0, 7>>].d, "Annots") = OwnRef(4)
    /\ objects[<<0, 4>>].a = << OwnRef(8) >>
    /\ r.status = "ok"
    /\ r.st.objects[<<0, 4>>].a = << OwnRef(8), OwnRef(9) >>
    /\ r.marked = << OwnRef(9) >>

\* ------------------------------------------------------------------ font.py: GlyphAccumulator

\* The font the accumulator was built for: tt.getBestCmap() maps three
\* characters to glyph names, the glyph ids are those of tt.getGlyphID and the
\* widths those of the glyph set; "x" and "y" are not in the cmap.
Chars == {"a", "b", "d", "x", "y"}
cmap == ("a" :> "A") @@ ("b" :> "B") @@ ("d" :> "D")
getGlyphID == (".notdef" :> 0) @@ ("A" :> 1) @@ ("B" :> 2) @@ ("D" :> 7)
glyph_set == (".notdef" :> 500) @@ ("A" :> 600) @@ ("B" :> 650) @@ ("D" :> 700)
units_per_em == 1000

\* the longest string fed at once, and the highest id a writer reaches by
\* embedding
MaxTxt == 2
MaxFontId == 7

\* dict lookups of self._glyphs, kept in insertion order as <<ch, value>>
GlyphsHas(g, ch) == \E i \in DOMAIN g : g[i][1] = ch
GlyphsGet(g, ch) == g[CHOOSE i \in DOMAIN g : g[i][1] = ch][2]

\* GlyphAccumulator._encode_char: a glyph is <<glyph id, width>>
encode_char(g, ch) ==
    IF GlyphsHas(g, ch)
    THEN [glyphs |-> g, glyph_id |-> GlyphsGet(g, ch)[1], width |-> GlyphsGet(g, ch)[2]]
    ELSE LET glyph_name == IF ch \in DOMAIN cmap THEN cmap[ch] ELSE ".notdef"
             glyph_id == getGlyphID[glyph_name]
             width == glyph_set[glyph_name]
         IN [glyphs |-> Append(g, << ch, << glyph_id, width >> >>),
             glyph_id |-> glyph_id, width |-> width]

\* '%04x' % glyph_id
Hex4(n) == << (n \div 4096) % 16, (n \div 256) % 16, (n \div 16) % 16, n % 16 >>

\* GlyphAccumulator.feed_string: the glyphs, the hex encoded string and the
\* total width (in font units; the caller gets it divided by units_per_em)
RECURSIVE feed_string(_, _)
feed_string(g, txt) ==
    IF txt = << >>
    THEN [glyphs |-> g, hex_encoded |-> << >>, total_width |-> 0]
    ELSE LET c == encode_char(g, Head(txt))
             t == feed_string(c.glyphs, Tail(txt))
         IN [glyphs |-> t.glyphs,
             hex_encoded |-> Hex4(c.glyph_id) \o t.hex_encoded,
             total_width |-> c.width + t.total_width]

\* sorted(self._glyphs.values(), key=lambda t: t[0]): a stable sort
RECURSIVE sorted_by_cid(_)
sorted_by_cid(values) ==
    IF values = << >>
    THEN << >>
    ELSE LET i == CHOOSE i \in DOMAIN values :
                      /\ \A j \in DOMAIN values : values[i][1] <= values[j][1]
                      /\ \A j \in 1 .. (i - 1) : values[j][1] # values[i][1]
         IN << values[i] >> \o
            sorted_by_cid([ j \in 1 .. (Len(values) - 1) |->
                              IF j < i THEN values[j] ELSE values[j + 1] ])

\* the loop of _widths: what it yields from the values left in itr
RECURSIVE widths(_, _, _, _)
widths(itr, current_chunk, prev_cid, first_cid) ==
    IF itr = << >>
    THEN << >>
    ELSE LET cid == Head(itr)[1]
             width == Head(itr)[2]
         IN IF current_chunk # << >> /\ cid # prev_cid + 1
            THEN << NumberObject(first_cid), ArrayObject(current_chunk) >> \o
                 widths(Tail(itr), << NumberObject(width) >>, cid, cid)
            ELSE widths(Tail(itr), Append(current_chunk, NumberObject(width)),
                        cid, first_cid)

\* list(_widths()) of embed_subset; peek(by_cid) has nothing to return when
\* no glyph was fed
widths_entry(g) ==
    LET by_cid == sorted_by_cid([ i \in DOMAIN g |-> g[i][2] ]) IN
    IF by_cid = << >>
    THEN [status |-> "StopIteration"]
    ELSE [status |-> "ok",
          res |-> ArrayObject(widths(by_cid, << >>, -1, by_cid[1][1]))]

\* FontDescriptor(cf), the font file stream of set_font_file, CIDFontType0(tt)
\* and the Type0 font of embed_subset
FontDescriptor ==
    DictionaryObject(<< <<"Type", NameObject("FontDescriptor")>>,
                        <<"FontName", NameObject("Font")>> >>)
FontFile ==
    StreamObject_compress(
        StreamObject(<< <<"Subtype", NameObject("CIDFontType0C")>> >>, "cff"))
CIDFontType0 ==
    DictionaryObject(<< <<"Type", NameObject("Font")>>,
                        <<"Subtype", NameObject("CIDFontType0")>>,
                        <<"BaseFont", NameObject("Font")>> >>)
Type0Font(cidfont_ref) ==
    DictionaryObject(<< <<"Type", NameObject("Font")>>,
                        <<"Subtype", NameObject("Type0")>>,
                        <<"DescendantFonts", ArrayObject(<< cidfont_ref >>)>>,
                        <<"Encoding", NameObject("Identity-H")>>,
                        <<"BaseFont", NameObject("Font-Identity-H")>> >>)

\* CIDFont.embed(writer) and CIDFontType0.set_font_file(writer): cf is the
\* CIDFont, which gets its /FontDescriptor; the descriptor gets /FontFile3
\* after it was added
CIDFont_embed(st, cf) ==
    LET fd == add_object(st, FontDescriptor, None, None)
        fs == add_object(fd.st, FontFile, None, None)
    IN [st |-> mutate(fs.st, fd.res,
                      [FontDescriptor EXCEPT !.d = DictSet(@, "FontFile3", fs.res)]),
        cf |-> [cf EXCEPT !.d = DictSet(@, "FontDescriptor", fd.res)]]

\* embed_subset once the CIDFont is embedded: the CIDFont is added, /W is
\* set on it and the Type0 font is added; cidfont_ref is in the result also
\* when _widths raised
embed_subset_fonts(em, g) ==
    LET c == add_object(em.st, em.cf, None, None)
        w == widths_entry(g)
    IN IF w.status # "ok"
       THEN [st |-> c.st, status |-> w.status, cidfont_ref |-> c.res]
       ELSE LET t == add_object(mutate(c.st, c.res,
                                       [em.cf EXCEPT !.d = DictSet(@, "W", w.res)]),
                                Type0Font(c.res), None, None)
            IN [st |-> t.st, status |-> "ok", res |-> t.res, cidfont_ref |-> c.res]

\* GlyphAccumulator.embed_subset(writer)
embed_subset(st, g) == embed_subset_fonts(CIDFont_embed(st, CIDFontType0), g)

\* the strings a caller feeds
Texts == UNION { [1 .. n -> Chars] : n \in 1 .. MaxTxt }

FeedString ==
    \E txt \in Texts :
        /\ glyphs' = feed_string(glyphs, txt).glyphs
        /\ UNCHANGED << objects, object_streams, objs_in_streams, lastobj_id,
                        allocated_placeholders, stream_xrefs, heap, returned,
                        security_handler, encrypt, output_version,
                        chunk_arg, chunk_res, extracted >>

\* embed_subset(writer); extract_subset is called first unless it was before
EmbedSubset ==
    /\ lastobj_id + 4 <= MaxFontId
    /\ Install(embed_subset(Writer, glyphs).st)
    /\ extracted' = TRUE
    /\ UNCHANGED << chunk_arg, chunk_res, glyphs >>

NextFont == FeedString \/ EmbedSubset

SpecFont == Init /\ [][NextFont]_vars

\* the glyph ids in use and the width of each
GlyphIds(g) == { g[i][2][1] : i \in DOMAIN g }
WidthOf(g, cid) == g[CHOOSE i \in DOMAIN g : g[i][2][1] = cid][2][2]

\* for every maximal run of consecutive glyph ids, ascending: the first id
\* followed by the array of the widths of the run in id order
ExpectedWidths(g) ==
    LET runs == RunsOf(GlyphIds(g)) IN
    Concat([ j \in DOMAIN runs |->
               << NumberObject(runs[j][1]),
                  ArrayObject([ k \in 1 .. runs[j][2] |->
                                  NumberObject(WidthOf(g, runs[j][1] + k - 1)) ]) >> ])

\* the number of widths an array /W lists
RECURSIVE ListedWidths(_)
ListedWidths(a) ==
    IF a = << >>
    THEN 0
    ELSE (IF Head(a).kind = "array" THEN Len(Head(a).a) ELSE 0) + ListedWidths(Tail(a))

\* C30: the /W array embed_subset builds covers every glyph fed to the
\* accumulator: for the glyph ids in ascending order, split into maximal runs
\* of consecutive ids, it holds for every run, the last one included, the
\* first id of the run followed by the widths of its glyphs in id order, so
\* the widths listed are as many as the distinct glyphs used.
C30_WidthsCoverEveryRun ==
    glyphs # << >> =>
        LET r == embed_subset(Writer, glyphs)
            cidfont == get_object(r.st, r.cidfont_ref).res
        IN
        /\ r.status = "ok"
        /\ DictHas(cidfont.d, "W")
        /\ DictGet(cidfont.d, "W").a = ExpectedWidths(glyphs)
        /\ ListedWidths(DictGet(cidfont.d, "W").a) = Cardinality(GlyphIds(glyphs))

\* C30, the state the claim is about: strings with the glyph ids 1, 2 and 7
\* were fed and the subset was embedded: the /W of the CIDFont in the store
\* holds the run that starts at 1 and nothing for the glyph 7
C30_Witness ==
    /\ extracted
    /\ GlyphIds(glyphs) = {1, 2, 7}
    /\ \E key \in DOMAIN objects :
        /\ objects[key].kind = "dict"
        /\ DictHas(objects[key].d, "W")
        /\ DictGet(objects[key].d, "W").a
             = << NumberObject(1), ArrayObject(<< NumberObject(600), NumberObject(650) >>) >>

====
